---- MODULE Spec2Model ----
(***************************************************************************)
(* A model of the cyber emerging risk dashboard: the monthly article cache *)
(* and collector (news_fetcher.py), the article classifier, the monthly    *)
(* aggregation, and the staged analysis pipeline of main.py.               *)
(*                                                                         *)
(* The program is sequential.  Each component is one state machine with    *)
(* its own position variable; a component specification starts the         *)
(* component with inputs drawn from bounded sets and leaves the others     *)
(* idle.                                                                   *)
(***************************************************************************)
EXTENDS Integers, Sequences, FiniteSets, TLC

VARIABLES
    \* ---- get_news / fetch_monthly_articles_with_cache ----
    now,            \* datetime.now(), in ticks since 2020-01-01 00:00
    cache,          \* cache directory: month key -> cache file
    cpc,            \* position of the collector
    date_ranges,    \* get_news: the month windows of the run
    idx,            \* get_news: index of the window being fetched
    all_articles,   \* get_news: the articles collected so far
    month_articles, \* the value fetch_monthly_articles_with_cache returns
    call,           \* record of the current fetch_monthly_articles_with_cache call
    audit           \* number of timestamped files written by get_news

collectVars == <<now, cache, cpc, date_ranges, idx, all_articles, month_articles, call, audit>>

VARIABLES
    \* ---- categorize_articles_with_llm ----
    clpc,           \* position of the classifier
    cl_articles,    \* the articles being classified (enriched in place)
    cl_mapped,      \* number of results mapped back so far
    cl_failed,      \* the except branch was taken
    cl_result,      \* history: the result the loop took last, NoResult before the first
    cl_before       \* history: the articles before that result was mapped

classifyVars == <<clpc, cl_articles, cl_mapped, cl_failed, cl_result, cl_before>>

VARIABLES
    \* ---- get_historical_news_summary ----
    spc,            \* position of the aggregation loop
    monthly_data,   \* month key -> [articles, total_count, categories]
    s_added,        \* number of articles the loop has gone through
    s_seen          \* history: the articles the loop has gone through, in order

summaryVars == <<spc, monthly_data, s_added, s_seen>>

VARIABLES
    \* ---- fetch_monthly_articles ----
    fpc,                 \* position of the loop over raw_articles
    f_month,             \* month_key of the call
    processed_articles,  \* the list built by the loop
    processed_urls,      \* the links of the hits kept so far
    kept_links,          \* history: the link of the hit behind each kept article
    skipped_links,       \* history: the links skipped as already processed
    f_last,              \* history: the hit of the last iteration and what became of it
    f_seen               \* number of hits the loop has gone through

fetchVars == <<fpc, f_month, processed_articles, processed_urls, kept_links, skipped_links,
               f_last, f_seen>>

VARIABLES
    \* ---- main: the pipeline ----
    mpc,                     \* position in main
    news_feed,               \* environment: the articles get_news returns in this run
    m_articles,              \* main's variable articles
    news_files,              \* news/<timestamp>.json: timestamp -> [kind, articles]
    prior_output,            \* history: the output directory when the run started
    output,                  \* the files of the output directory
    cyber_risk_analysis,     \* <<>> for None, else <<value>>
    time_series_analysis,    \* <<>> for None, else <<value>>
    time_series_commentary,  \* <<>> for None, else <<value>>
    board_action_plan,       \* <<>> for None, else <<the priorities of action_points>>
    sorted_actions,          \* positions in action_points, in the order of sorted()
    plan_i,                  \* the loop variable i of enumerate(sorted_actions)
    project_plan,            \* <<>> for None, else <<the consolidated plans>>
    attempt,                 \* attempt number of the LLM call in flight, 0 when none is
    started,                 \* history: the stages started, in order
    classified,              \* history: the list categorize_articles_with_llm returned
    risk_input,              \* history: the list handed to analyze_emerging_risks
    plan_calls,              \* history: the action points create_project_plan was called for
    environ,                 \* environment: the variables of the process and of the .env file
    error_msg                \* the keys named by the ValueError of the credentials check

mainVars == <<mpc, news_feed, m_articles, news_files, prior_output, output,
              cyber_risk_analysis, time_series_analysis, time_series_commentary,
              board_action_plan, sorted_actions, plan_i, project_plan, attempt,
              started, classified, risk_input, plan_calls, environ, error_msg>>

VARIABLES
    \* ---- convert_to_ascii ----
    apc,        \* "input", then "once" and "twice" as the function is applied
    a_text,     \* the text to convert
    a_once,     \* convert_to_ascii(a_text)
    a_twice     \* convert_to_ascii(a_once)

asciiVars == <<apc, a_text, a_once, a_twice>>

VARIABLES
    \* ---- the trend functions of time_series_analyzer.py ----
    tpc,                     \* "data", "trend", "done"
    ts_monthly_data,         \* month key -> [total_count, categories]
    overall_trend,           \* result of calculate_overall_trend
    most_volatile_category   \* result of calculate_most_volatile_category

trendVars == <<tpc, ts_monthly_data, overall_trend, most_volatile_category>>

VARIABLES
    \* ---- run_google_search ----
    gpc,            \* "loop", "break", "returned"
    g_page,         \* the loop variable i
    all_results,    \* number of items in all_results
    g_first,        \* history: the answer to the first request of the last page
    g_second,       \* history: the answer to its retry, NoResponse without one
    page_requests,  \* history: requests issued for the last page
    page_sleeps,    \* history: seconds of back-off slept for the last page
    g_before,       \* history: all_results before the last page
    g_outcome       \* history: "extended", "empty" or "error" for the last page

searchVars == <<gpc, g_page, all_results, g_first, g_second, page_requests, page_sleeps, g_before, g_outcome>>

VARIABLES
    \* ---- analyze_emerging_risks ----
    rpc,            \* "call", "returned", "raised"
    r_attempt,      \* attempt number of the call
    r_response,     \* history: <<the emerging_risks of the last answer>>, <<>> without one
    risk_analysis,  \* <<>> for None, else <<the model the call returned>>
    risk_file       \* <<>> when no report was written, else <<its emerging_risks>>

riskVars == <<rpc, r_attempt, r_response, risk_analysis, risk_file>>

VARIABLES
    \* ---- clear_cache ----
    kpc,            \* "start", then "once" and "twice" as clear_cache is called
    cache_dir,      \* the directory: [exists, json: month key -> file, other: file names]
    k_before,       \* history: the directory before the first call
    k_once          \* history: the directory after the first call

clearVars == <<kpc, cache_dir, k_before, k_once>>

VARIABLES
    \* ---- get_news: the loop over range(months_back) ----
    wpc,            \* "loop", "done"
    w_now,          \* current_date, in ticks
    w_months_back,  \* the argument months_back
    w_ranges        \* date_ranges: [start, end, month], start and end as day numbers

windowsVars == <<wpc, w_now, w_months_back, w_ranges>>

VARIABLES
    \* ---- get_cache_info ----
    ipc,            \* "start", "loop", "returned"
    info_dir,       \* cache_dir as the call finds it
    info_todo,      \* the cache files the loop has not reached yet
    cache_info      \* the dictionary being filled

infoVars == <<ipc, info_dir, info_todo, cache_info>>

VARIABLES
    \* ---- the writing of a stage artifact ----
    ppc,            \* "produced", "written"
    produced,       \* [kind, dump]: the model a stage produced, as model_dump() gives it
    written         \* the content of the artifact file

persistVars == <<ppc, produced, written>>

VARIABLES
    \* ---- DashboardGenerator.generate_html ----
    dpc,            \* "start", "done"
    output_files,   \* the artifact files in output_dir: file name -> content
    html            \* what generate_html gave: the sections of the page

dashVars == <<dpc, output_files, html>>

vars == <<collectVars, classifyVars, summaryVars, fetchVars, mainVars, asciiVars, trendVars, searchVars, riskVars, clearVars, windowsVars, infoVars, persistVars, dashVars>>

\* what the actions of one component leave alone
notCollect == <<classifyVars, summaryVars, fetchVars, mainVars, asciiVars, trendVars, searchVars, riskVars, clearVars, windowsVars, infoVars, persistVars, dashVars>>
notClassify == <<collectVars, summaryVars, fetchVars, mainVars, asciiVars, trendVars, searchVars, riskVars, clearVars, windowsVars, infoVars, persistVars, dashVars>>
notSummary == <<collectVars, classifyVars, fetchVars, mainVars, asciiVars, trendVars, searchVars, riskVars, clearVars, windowsVars, infoVars, persistVars, dashVars>>
notFetch == <<collectVars, classifyVars, summaryVars, mainVars, asciiVars, trendVars, searchVars, riskVars, clearVars, windowsVars, infoVars, persistVars, dashVars>>
notMain == <<collectVars, classifyVars, summaryVars, fetchVars, asciiVars, trendVars, searchVars, riskVars, clearVars, windowsVars, infoVars, persistVars, dashVars>>
notAscii == <<collectVars, classifyVars, summaryVars, fetchVars, mainVars, trendVars, searchVars, riskVars, clearVars, windowsVars, infoVars, persistVars, dashVars>>
notTrend == <<collectVars, classifyVars, summaryVars, fetchVars, mainVars, asciiVars, searchVars, riskVars, clearVars, windowsVars, infoVars, persistVars, dashVars>>
notSearch == <<collectVars, classifyVars, summaryVars, fetchVars, mainVars, asciiVars, trendVars, riskVars, clearVars, windowsVars, infoVars, persistVars, dashVars>>
notRisk == <<collectVars, classifyVars, summaryVars, fetchVars, mainVars, asciiVars, trendVars, searchVars, clearVars, windowsVars, infoVars, persistVars, dashVars>>
notClear == <<collectVars, classifyVars, summaryVars, fetchVars, mainVars, asciiVars, trendVars, searchVars, riskVars, windowsVars, infoVars, persistVars, dashVars>>
notWindows == <<collectVars, classifyVars, summaryVars, fetchVars, mainVars, asciiVars, trendVars, searchVars, riskVars, clearVars, infoVars, persistVars, dashVars>>
notInfo == <<collectVars, classifyVars, summaryVars, fetchVars, mainVars, asciiVars, trendVars, searchVars, riskVars, clearVars, windowsVars, persistVars, dashVars>>
notPersist == <<collectVars, classifyVars, summaryVars, fetchVars, mainVars, asciiVars, trendVars, searchVars, riskVars, clearVars, windowsVars, infoVars, dashVars>>
notDash == <<collectVars, classifyVars, summaryVars, fetchVars, mainVars, asciiVars, trendVars, searchVars, riskVars, clearVars, windowsVars, infoVars, persistVars>>

-----------------------------------------------------------------------------
(* Bounds of the model *)

TicksPerDay == 2
MaxMonthsBack == 2
MaxPerMonth == 2
MaxClassify == 2
MaxMapped == 3
MaxSummary == 3
MaxRaw == 3
MaxFeed == 1
MaxActions == 3
MaxPriority == 3
MaxLongFeed == 52
MaxText == 3
MaxTrendMonths == 6
MaxVolMonths == 3
MaxItems == 2
MaxOutside == 1
MaxWindows == 13

-----------------------------------------------------------------------------
(* Calendar arithmetic of datetime / timedelta *)

None == "None"

IsLeap(y) == (y % 4 = 0 /\ y % 100 # 0) \/ (y % 400 = 0)

DaysInMonth(y, m) ==
    IF m = 2 THEN (IF IsLeap(y) THEN 29 ELSE 28)
    ELSE IF m \in {4, 6, 9, 11} THEN 30 ELSE 31

DaysInYear(y) == IF IsLeap(y) THEN 366 ELSE 365

RECURSIVE DaysBeforeYear(_)
DaysBeforeYear(y) == IF y <= 2020 THEN 0 ELSE DaysBeforeYear(y - 1) + DaysInYear(y - 1)

RECURSIVE DaysBeforeMonth(_, _)
DaysBeforeMonth(y, m) == IF m <= 1 THEN 0 ELSE DaysBeforeMonth(y, m - 1) + DaysInMonth(y, m - 1)

\* datetime(y, m, d) as a day number (2020-01-01 is day 0)
DayNum(y, m, d) == DaysBeforeYear(y) + DaysBeforeMonth(y, m) + (d - 1)

\* datetime(y, m, d) plus t ticks of the day, in ticks
Stamp(y, m, d, t) == DayNum(y, m, d) * TicksPerDay + t

DayOf(t) == t \div TicksPerDay

RECURSIVE YearAndDay(_, _)
\* the year of day number d (counted from 1 January of year y) and the day in it
YearAndDay(y, d) == IF d < DaysInYear(y) THEN <<y, d>> ELSE YearAndDay(y + 1, d - DaysInYear(y))

RECURSIVE MonthIn(_, _, _)
\* the month of day d (counted from the first of month m) of year y
MonthIn(y, m, d) == IF d < DaysInMonth(y, m) THEN m ELSE MonthIn(y, m + 1, d - DaysInMonth(y, m))

\* the (year, month) of an instant: strftime('%Y-%m')
MonthKeyOf(t) ==
    LET yd == YearAndDay(2020, DayOf(t))
    IN  <<yd[1], MonthIn(yd[1], 1, yd[2])>>

\* timedelta.days of (a - b): whole days, rounded towards minus infinity
DeltaDays(a, b) == (a - b) \div TicksPerDay

-----------------------------------------------------------------------------
(* Articles and search hits *)

NoDate == [kind |-> "none", t |-> 0]
BadDate == [kind |-> "bad", t |-> 0]
DateAt(t) == [kind |-> "date", t |-> t]

\* links and titles are numbered from 1; link 0 stands for a hit without a link
Titles == {1, 2}

\* extract_domain: the host part of the link (several links share a host)
extract_domain(link) == IF link % 2 = 1 THEN "a.com" ELSE "b.com"

\* Article(title, description, published_date, source), not yet classified
NewArticle(title, published, link) ==
    [title |-> title, published_date |-> DateAt(published),
     source |-> extract_domain(link), category |-> None, is_cyber_event |-> None]

Min(a, b) == IF a <= b THEN a ELSE b

\* seq[:n]
Take(seq, n) == SubSeq(seq, 1, Min(n, Len(seq)))

\* first day of the month of month_key, 00:00
start_date_obj(month_key) == Stamp(month_key[1], month_key[2], 1, 0)

\* (start + 31 days).replace(day=1) - 1 day: the last day of the month, 00:00
end_of_month(month_key) ==
    LET later == start_date_obj(month_key) + 31 * TicksPerDay
        ym    == MonthKeyOf(later)
    IN  Stamp(ym[1], ym[2], 1, 0) - TicksPerDay

\* datetime(2024, 7, 1)
filter_after_date == Stamp(2024, 7, 1, 0)

\* parse_date: structured metadata, else the scraped page, else the first of the month
parse_date(hit, month_key) ==
    IF hit.pagemap.kind # "none" THEN hit.pagemap
    ELSE IF hit.scraped.kind # "none" THEN hit.scraped
    ELSE DateAt(start_date_obj(month_key))

\* a slip of ProcessRawArticle: a link already processed is not skipped
ProcessRawArticle_no_url_check(st, hit, month_key, articles_needed) ==
    LET published == parse_date(hit, month_key)
    IN  IF st.done THEN st
        ELSE IF hit.link = 0 THEN st
        ELSE IF published.kind # "date" THEN st
        ELSE IF published.t < filter_after_date THEN st
        ELSE IF ~(start_date_obj(month_key) <= published.t
                  /\ published.t <= end_of_month(month_key)) THEN st
        ELSE LET arts == Append(st.articles, NewArticle(hit.title, published.t, hit.link))
             IN  [articles |-> arts,
                  urls     |-> st.urls \cup {hit.link},
                  done     |-> Len(arts) >= articles_needed]

\* a slip of ProcessRawArticle: the month bounds are not applied
ProcessRawArticle_no_bounds(st, hit, month_key, articles_needed) ==
    LET published == parse_date(hit, month_key)
    IN  IF st.done THEN st
        ELSE IF hit.link = 0 \/ hit.link \in st.urls THEN st
        ELSE IF published.kind # "date" THEN st
        ELSE IF published.t < filter_after_date THEN st
        ELSE LET arts == Append(st.articles, NewArticle(hit.title, published.t, hit.link))
             IN  [articles |-> arts,
                  urls     |-> st.urls \cup {hit.link},
                  done     |-> Len(arts) >= articles_needed]

\* one iteration of the loop over raw_articles in fetch_monthly_articles;
\* st = [articles, urls, done], done once the loop has hit its break
ProcessRawArticle(st, hit, month_key, articles_needed) ==
    LET published == parse_date(hit, month_key)
    IN  IF st.done THEN st
        ELSE IF hit.link = 0 \/ hit.link \in st.urls THEN st
        ELSE IF published.kind # "date" THEN st
        ELSE IF published.t < filter_after_date THEN st
        ELSE IF ~(start_date_obj(month_key) <= published.t
                  /\ published.t <= end_of_month(month_key)) THEN st
        ELSE LET arts == Append(st.articles, NewArticle(hit.title, published.t, hit.link))
             IN  [articles |-> arts,
                  urls     |-> st.urls \cup {hit.link},
                  done     |-> Len(arts) >= articles_needed]

EmptyFetch == [articles |-> <<>>, urls |-> {}, done |-> FALSE]

RECURSIVE ProcessAll(_, _, _, _)
ProcessAll(st, raw, month_key, articles_needed) ==
    IF raw = <<>> THEN st
    ELSE ProcessAll(ProcessRawArticle(st, Head(raw), month_key, articles_needed),
                    Tail(raw), month_key, articles_needed)

\* fetch_monthly_articles, given the hits run_google_search returned
fetch_monthly_articles(raw_articles, month_key, articles_needed) ==
    ProcessAll(EmptyFetch, raw_articles, month_key, articles_needed).articles

Hit(link, title, pagemap, scraped) ==
    [link |-> link, title |-> title, pagemap |-> pagemap, scraped |-> scraped]

-----------------------------------------------------------------------------
(* The cache store *)

AbsentFile ==
    [kind |-> "absent", month |-> <<0, 0>>, date_kind |-> "missing", cache_date |-> 0,
     arts_valid |-> TRUE, articles |-> <<>>, count |-> 0]

\* a file that json.load rejects
InvalidJson == [AbsentFile EXCEPT !.kind = "invalid_json"]

\* the cache_data dictionary written by fetch_monthly_articles_with_cache
cache_data(month_key, t, articles) ==
    [kind |-> "entry", month |-> month_key, date_kind |-> "ok", cache_date |-> t,
     arts_valid |-> TRUE, articles |-> articles, count |-> Len(articles)]

\* cache_file.exists() and the file's content
FileAt(c, month_key) == IF month_key \in DOMAIN c THEN c[month_key] ELSE AbsentFile

\* open(cache_file, 'w') + json.dump
WriteFile(c, month_key, file) ==
    [k \in DOMAIN c \cup {month_key} |-> IF k = month_key THEN file ELSE c[k]]

\* cached_data.get('cache_date', '2020-01-01')
cache_date_of(file) == IF file.date_kind = "missing" THEN Stamp(2020, 1, 1, 0) ELSE file.cache_date

\* a slip of cache_valid_days: the window of the current month for every month
cache_valid_days_one_window(month_key, current_date) == 7

\* 7 days for the current month, 30 days for past months
cache_valid_days(month_key, current_date) ==
    IF month_key = MonthKeyOf(current_date) THEN 7 ELSE 30

\* a slip of CacheCheck: no try/except around reading the cache file
CacheCheck_uncaught(file, month_key, current_date, max) ==
    IF file.kind = "absent" THEN [outcome |-> "miss", why |-> "no_file", articles |-> <<>>]
    ELSE IF file.kind # "entry" \/ file.date_kind = "bad" \/ ~file.arts_valid
        THEN [outcome |-> "raise", why |-> "corrupted", articles |-> <<>>]
    ELSE IF DeltaDays(current_date, cache_date_of(file)) < cache_valid_days(month_key, current_date)
        THEN [outcome |-> "hit", why |-> "fresh", articles |-> Take(file.articles, max)]
    ELSE [outcome |-> "miss", why |-> "expired", articles |-> <<>>]

\* the cache check of fetch_monthly_articles_with_cache
CacheCheck(file, month_key, current_date, max) ==
    IF file.kind = "absent" THEN [outcome |-> "miss", why |-> "no_file", articles |-> <<>>]
    ELSE IF file.kind # "entry" \/ file.date_kind = "bad"
        THEN [outcome |-> "miss", why |-> "corrupted", articles |-> <<>>]
    ELSE IF DeltaDays(current_date, cache_date_of(file)) < cache_valid_days(month_key, current_date)
        THEN IF file.arts_valid
             THEN [outcome |-> "hit", why |-> "fresh", articles |-> Take(file.articles, max)]
             ELSE [outcome |-> "miss", why |-> "corrupted", articles |-> <<>>]
    ELSE [outcome |-> "miss", why |-> "expired", articles |-> <<>>]

-----------------------------------------------------------------------------
(* get_news and fetch_monthly_articles_with_cache *)

RECURSIVE RollBack(_, _)
\* while month <= 0: month += 12; year -= 1
RollBack(year, month) == IF month <= 0 THEN RollBack(year - 1, month + 12) ELSE <<year, month>>

\* a slip of DateRange: every past month is given thirty days
DateRange_thirty_days(current_date, i) ==
    LET cur == MonthKeyOf(current_date)
    IN  IF i = 0
        THEN [start |-> DayNum(cur[1], cur[2], 1), end |-> DayOf(current_date), month |-> cur]
        ELSE LET ym == RollBack(cur[1], cur[2] - i)
             IN  [start |-> DayNum(ym[1], ym[2], 1), end |-> DayNum(ym[1], ym[2], 1) + 29,
                  month |-> ym]

\* the window of get_news for loop index i (0 is the current month)
DateRange(current_date, i) ==
    LET cur == MonthKeyOf(current_date)
    IN  IF i = 0
        THEN [start |-> DayNum(cur[1], cur[2], 1), end |-> DayOf(current_date), month |-> cur]
        ELSE LET ym == RollBack(cur[1], cur[2] - i)
                 next_month == IF ym[2] = 12 THEN DayNum(ym[1] + 1, 1, 1)
                                             ELSE DayNum(ym[1], ym[2] + 1, 1)
             IN  [start |-> DayNum(ym[1], ym[2], 1), end |-> next_month - 1, month |-> ym]

DateRanges(current_date, months_back) ==
    [i \in 1..months_back |-> DateRange(current_date, i - 1)]

NoCall ==
    [month |-> <<0, 0>>, outcome |-> "none", why |-> "none", file |-> AbsentFile, at |-> 0,
     requested |-> FALSE, search_failed |-> FALSE, fetched |-> <<>>, wrote |-> FALSE]

month_key == date_ranges[idx].month

\* articles_per_month, which main passes to get_news
max_results == MaxPerMonth

\* the i-th hit of a result page, dated by the fallback of parse_date
PlainHit(i) == Hit(i, i, NoDate, NoDate)

\* the search results offered to a fresh collection of one month: none, one hit
\* with a scraped date, or one hit more than the cap
RawChoices(mk) ==
    { <<>>,
      << Hit(1, 1, NoDate, DateAt(start_date_obj(mk) + TicksPerDay)) >>,
      [i \in 1..(max_results + 1) |-> PlainHit(i)] }

\* what run_google_search returns to a fresh collection: the hits of a search
\* that went through, or, when a request failed, the hits of the pages before
\* it: none, or one
SearchResults(mk) ==
    {[failed |-> FALSE, raw |-> raw] : raw \in RawChoices(mk)}
    \cup {[failed |-> TRUE, raw |-> <<>>],
          [failed |-> TRUE, raw |-> << Hit(1, 1, NoDate, DateAt(start_date_obj(mk) + TicksPerDay)) >>]}

\* get_news up to the first iteration of its loop over date_ranges
StartGetNews ==
    /\ cpc = "idle"
    /\ \E months_back \in 1..MaxMonthsBack : date_ranges' = DateRanges(now, months_back)
    /\ idx' = 1
    /\ all_articles' = <<>>
    /\ month_articles' = <<>>
    /\ call' = NoCall
    /\ cpc' = "check"
    /\ UNCHANGED <<now, cache, audit>>
    /\ UNCHANGED notCollect

\* fetch_monthly_articles_with_cache: the cache check; a hit returns
CheckCache ==
    /\ cpc = "check"
    /\ LET file == FileAt(cache, month_key)
           r    == CacheCheck(file, month_key, now, max_results)
       IN  /\ call' = [NoCall EXCEPT !.month = month_key, !.outcome = r.outcome,
                                     !.why = r.why, !.file = file, !.at = now]
           /\ month_articles' = r.articles
           /\ cpc' = CASE r.outcome = "hit"  -> "return"
                       [] r.outcome = "miss" -> "fetch"
                       [] OTHER              -> "raised"
    /\ UNCHANGED <<now, cache, date_ranges, idx, all_articles, audit>>
    /\ UNCHANGED notCollect

\* fetch_monthly_articles_with_cache: the fresh collection after a miss
FetchFresh ==
    /\ cpc = "fetch"
    /\ \E search \in SearchResults(month_key) :
          /\ month_articles' = fetch_monthly_articles(search.raw, month_key, max_results)
          /\ call' = [call EXCEPT !.requested = TRUE, !.search_failed = search.failed,
                                  !.fetched = month_articles']
    /\ cpc' = "save"
    /\ UNCHANGED <<now, cache, date_ranges, idx, all_articles, audit>>
    /\ UNCHANGED notCollect

\* a slip of SaveCache: the month's result is returned without the write
SaveCache_skipped ==
    /\ cpc = "save"
    /\ call' = [call EXCEPT !.wrote = TRUE]
    /\ cpc' = "return"
    /\ UNCHANGED <<now, cache, date_ranges, idx, all_articles, month_articles, audit>>
    /\ UNCHANGED notCollect

\* fetch_monthly_articles_with_cache: the cache file is written
SaveCache ==
    /\ cpc = "save"
    /\ cache' = WriteFile(cache, month_key, cache_data(month_key, now, month_articles))
    /\ call' = [call EXCEPT !.wrote = TRUE]
    /\ cpc' = "return"
    /\ UNCHANGED <<now, date_ranges, idx, all_articles, month_articles, audit>>
    /\ UNCHANGED notCollect

\* get_news: the month's articles are appended and the loop goes on
ReturnMonth ==
    /\ cpc = "return"
    /\ all_articles' = all_articles \o month_articles
    /\ IF idx < Len(date_ranges)
       THEN idx' = idx + 1 /\ cpc' = "check"
       ELSE idx' = idx /\ cpc' = "audit"
    /\ UNCHANGED <<now, cache, date_ranges, month_articles, call, audit>>
    /\ UNCHANGED notCollect

\* get_news: the combined list is saved to the timestamped file and returned
SaveAudit ==
    /\ cpc = "audit"
    /\ audit' = audit + 1
    /\ cpc' = "done"
    /\ UNCHANGED <<now, cache, date_ranges, idx, all_articles, month_articles, call>>
    /\ UNCHANGED notCollect

-----------------------------------------------------------------------------
(* categorize_articles_with_llm *)

\* the part of the CyberEventCategory taxonomy the model uses
Categories == {"Ransomware", "Phishing", "Other"}

\* Python truthiness of the optional flag
Truthy(flag) == flag = "True"

\* articles[result.id] = ... under "if result.id < len(articles)": a negative id
\* indexes from the end of the list, and one below -len raises IndexError
MapResult(articles, result) ==
    LET n == Len(articles)
        set(pos) == [articles EXCEPT ![pos].category = result.category,
                                     ![pos].is_cyber_event = result.is_cyber_event]
    IN  IF ~(result.id < n) THEN [raised |-> FALSE, articles |-> articles]
        ELSE IF result.id >= 0 THEN [raised |-> FALSE, articles |-> set(result.id + 1)]
        ELSE IF result.id >= 0 - n THEN [raised |-> FALSE, articles |-> set(n + result.id + 1)]
        ELSE [raised |-> TRUE, articles |-> articles]

\* a slip of AssignDefaults: only the articles not yet classified get the default
AssignDefaults_unset_only(articles) ==
    [i \in 1..Len(articles) |->
        IF articles[i].category = None
        THEN [articles[i] EXCEPT !.category = "Other", !.is_cyber_event = "False"]
        ELSE articles[i]]

\* the except branch: every article gets category Other and is_cyber_event False
AssignDefaults(articles) ==
    [i \in 1..Len(articles) |->
        [articles[i] EXCEPT !.category = "Other", !.is_cyber_event = "False"]]

RECURSIVE MapAll(_, _)
\* the loop over classified_results inside the try block
MapAll(articles, results) ==
    IF results = <<>> THEN [raised |-> FALSE, articles |-> articles]
    ELSE LET r == MapResult(articles, Head(results))
         IN  IF r.raised THEN r ELSE MapAll(r.articles, Tail(results))

\* categorize_articles_with_llm, given what the LLM call did
categorize_articles_with_llm(articles, llm) ==
    IF llm.raised THEN AssignDefaults(articles)
    ELSE LET r == MapAll(articles, llm.results)
         IN  IF r.raised THEN AssignDefaults(r.articles) ELSE r.articles

\* no result has been taken
NoResult == [id |-> 0, category |-> None, is_cyber_event |-> None]

\* the ClassifiedArticle records an LLM response can hold for n articles
ClassifiedChoices(n) ==
    [id : (0 - n - 1)..(n + 1), category : {"Ransomware", "Other"},
     is_cyber_event : {"True", "False"}]

\* the LLM call raises after its retries
ClassifyCallFails ==
    /\ clpc = "call"
    /\ cl_articles' = AssignDefaults(cl_articles)
    /\ cl_failed' = TRUE
    /\ clpc' = "returned"
    /\ UNCHANGED <<cl_mapped, cl_result, cl_before>>
    /\ UNCHANGED notClassify

\* the LLM call returns a list of ClassifiedArticle
ClassifyCallReturns ==
    /\ clpc = "call"
    /\ clpc' = "map"
    /\ UNCHANGED <<cl_articles, cl_mapped, cl_failed, cl_result, cl_before>>
    /\ UNCHANGED notClassify

\* one iteration of the loop over classified_results
MapNextResult ==
    /\ clpc = "map"
    /\ cl_mapped < MaxMapped
    /\ \E result \in ClassifiedChoices(Len(cl_articles)) :
          LET r == MapResult(cl_articles, result)
          IN  /\ cl_result' = result
              /\ cl_before' = cl_articles
              /\ IF r.raised
                 THEN /\ cl_articles' = AssignDefaults(r.articles)
                      /\ cl_failed' = TRUE
                      /\ clpc' = "returned"
                      /\ UNCHANGED cl_mapped
                 ELSE /\ cl_articles' = r.articles
                      /\ cl_mapped' = cl_mapped + 1
                      /\ UNCHANGED <<clpc, cl_failed>>
    /\ UNCHANGED notClassify

\* the loop is over and the articles are returned
ClassifyReturns ==
    /\ clpc = "map"
    /\ clpc' = "returned"
    /\ UNCHANGED <<cl_articles, cl_mapped, cl_failed, cl_result, cl_before>>
    /\ UNCHANGED notClassify

\* n articles as get_news returns them: numbered, unclassified, spread over two months
FeedArticle(i) ==
    NewArticle(i, Stamp(2025, 1 + (i % 2), 1 + (i % 3), 0), i)

Feed(n) == [i \in 1..n |-> FeedArticle(i)]

IdleClassify ==
    /\ clpc = "idle"
    /\ cl_articles = <<>>
    /\ cl_mapped = 0
    /\ cl_failed = FALSE
    /\ cl_result = NoResult
    /\ cl_before = <<>>

InitClassifier ==
    /\ clpc = "call"
    /\ cl_articles \in {Feed(n) : n \in 0..MaxClassify}
    /\ cl_mapped = 0
    /\ cl_failed = FALSE
    /\ cl_result = NoResult
    /\ cl_before = <<>>

NextClassifier ==
    \/ ClassifyCallFails
    \/ ClassifyCallReturns
    \/ MapNextResult
    \/ ClassifyReturns

-----------------------------------------------------------------------------
(* fetch_monthly_articles, one hit of raw_articles at a time *)

\* the months the loop is run for: one before the cutoff of filter_after_date, one after
FetchMonths == {<<2024, 6>>, <<2025, 1>>}

\* what a hit can carry: any link (or none), any title, and structured metadata
\* that is missing, unparseable, inside the month (on its last day at 00:00 and
\* later that day) or outside it
RawHits(mk) ==
    {Hit(link, title, pagemap, scraped) :
        link \in 0..2, title \in Titles,
        pagemap \in {NoDate, BadDate, DateAt(start_date_obj(mk) - 1),
                     DateAt(end_of_month(mk)), DateAt(end_of_month(mk) + 1),
                     DateAt(end_of_month(mk) + TicksPerDay)},
        scraped \in {NoDate, DateAt(start_date_obj(mk) + TicksPerDay)}}

\* no iteration yet
NoHit == [new_link |-> FALSE, resolved |-> NoDate, kept |-> FALSE]

\* the loop body runs on the next hit of raw_articles
FetchStep ==
    /\ fpc = "loop"
    /\ f_seen < MaxRaw
    /\ \E hit \in RawHits(f_month) :
         LET st   == [articles |-> processed_articles, urls |-> processed_urls, done |-> FALSE]
             next == ProcessRawArticle(st, hit, f_month, max_results)
         IN  /\ processed_articles' = next.articles
             /\ processed_urls' = next.urls
             /\ kept_links' = IF Len(next.articles) > Len(processed_articles)
                              THEN Append(kept_links, hit.link) ELSE kept_links
             /\ skipped_links' = IF hit.link # 0 /\ hit.link \in processed_urls
                                 THEN skipped_links \cup {hit.link} ELSE skipped_links
             /\ f_last' = [new_link |-> hit.link # 0 /\ hit.link \notin processed_urls,
                           resolved |-> parse_date(hit, f_month),
                           kept     |-> Len(next.articles) > Len(processed_articles)]
             /\ fpc' = IF next.done THEN "break" ELSE "loop"
    /\ f_seen' = f_seen + 1
    /\ UNCHANGED f_month
    /\ UNCHANGED notFetch

\* raw_articles is exhausted, or the loop has hit its break: the list is returned
FetchReturn ==
    /\ fpc \in {"loop", "break"}
    /\ fpc' = "returned"
    /\ UNCHANGED <<f_month, processed_articles, processed_urls, kept_links, skipped_links,
                   f_last, f_seen>>
    /\ UNCHANGED notFetch

IdleFetch ==
    /\ fpc = "idle"
    /\ f_month = <<0, 0>>
    /\ processed_articles = <<>>
    /\ processed_urls = {}
    /\ kept_links = <<>>
    /\ skipped_links = {}
    /\ f_last = NoHit
    /\ f_seen = 0

InitFetch ==
    /\ fpc = "loop"
    /\ f_month \in FetchMonths
    /\ processed_articles = <<>>
    /\ processed_urls = {}
    /\ kept_links = <<>>
    /\ skipped_links = {}
    /\ f_last = NoHit
    /\ f_seen = 0

NextFetch ==
    \/ FetchStep
    \/ FetchReturn

-----------------------------------------------------------------------------
(* get_historical_news_summary *)

\* dict.get(key, 0)
GetOr0(d, key) == IF key \in DOMAIN d THEN d[key] ELSE 0

\* d[key] = value
Put(d, key, value) == [k \in DOMAIN d \cup {key} |-> IF k = key THEN value ELSE d[k]]

EmptyBucket == [articles |-> <<>>, total_count |-> 0, categories |-> <<>>]

\* a slip of AddToSummary: an article without a category is counted in no category
AddToSummary_no_default(data, article) ==
    IF article.published_date.kind # "date" THEN data
    ELSE LET mk     == MonthKeyOf(article.published_date.t)
             bucket == IF mk \in DOMAIN data THEN data[mk] ELSE EmptyBucket
         IN  Put(data, mk,
                 [articles    |-> Append(bucket.articles, article),
                  total_count |-> bucket.total_count + 1,
                  categories  |-> IF article.category = None THEN bucket.categories
                                  ELSE Put(bucket.categories, article.category,
                                           GetOr0(bucket.categories, article.category) + 1)])

\* a slip of AddToSummary: an article whose date is missing or unparseable is
\* counted in January 2025
AddToSummary_default_month(data, article) ==
    LET mk       == IF article.published_date.kind = "date"
                    THEN MonthKeyOf(article.published_date.t) ELSE <<2025, 1>>
        bucket   == IF mk \in DOMAIN data THEN data[mk] ELSE EmptyBucket
        category == IF article.category # None THEN article.category ELSE "Other"
    IN  Put(data, mk,
            [articles    |-> Append(bucket.articles, article),
             total_count |-> bucket.total_count + 1,
             categories  |-> Put(bucket.categories, category,
                                 GetOr0(bucket.categories, category) + 1)])

\* one iteration of the loop of get_historical_news_summary: an article with a
\* missing or unparseable date is skipped
AddToSummary(data, article) ==
    IF article.published_date.kind # "date" THEN data
    ELSE LET mk       == MonthKeyOf(article.published_date.t)
             bucket   == IF mk \in DOMAIN data THEN data[mk] ELSE EmptyBucket
             category == IF article.category # None THEN article.category ELSE "Other"
         IN  Put(data, mk,
                 [articles    |-> Append(bucket.articles, article),
                  total_count |-> bucket.total_count + 1,
                  categories  |-> Put(bucket.categories, category,
                                      GetOr0(bucket.categories, category) + 1)])

RECURSIVE SummaryOf(_, _)
SummaryOf(data, articles) ==
    IF articles = <<>> THEN data
    ELSE SummaryOf(AddToSummary(data, Head(articles)), Tail(articles))

\* get_historical_news_summary(articles)
get_historical_news_summary(articles) == SummaryOf(<<>>, articles)

\* the articles the loop can meet: any date state, any category state
SummaryArticles ==
    {[NewArticle(1, 0, 1) EXCEPT !.published_date = d, !.category = c, !.is_cyber_event = "True"] :
        d \in {NoDate, BadDate, DateAt(Stamp(2025, 1, 31, 1)), DateAt(Stamp(2025, 2, 1, 0))},
        c \in {None, "Ransomware", "Other"}}

\* the loop takes the next article of its argument
SummaryAdd ==
    /\ spc = "loop"
    /\ s_added < MaxSummary
    /\ \E article \in SummaryArticles :
          /\ monthly_data' = AddToSummary(monthly_data, article)
          /\ s_seen' = Append(s_seen, article)
    /\ s_added' = s_added + 1
    /\ UNCHANGED spc
    /\ UNCHANGED notSummary

\* the argument is exhausted and monthly_data is returned
SummaryReturn ==
    /\ spc = "loop"
    /\ spc' = "returned"
    /\ UNCHANGED <<monthly_data, s_added, s_seen>>
    /\ UNCHANGED notSummary

IdleSummary ==
    /\ spc = "idle"
    /\ monthly_data = <<>>
    /\ s_added = 0
    /\ s_seen = <<>>

InitSummary ==
    /\ spc = "loop"
    /\ monthly_data = <<>>
    /\ s_added = 0
    /\ s_seen = <<>>

NextSummary ==
    \/ SummaryAdd
    \/ SummaryReturn

-----------------------------------------------------------------------------
(* The collector started on a cache directory left by earlier runs.  Writes *)
(* to the local file system are taken to succeed.                           *)

NowChoices == {Stamp(2025, 1, 15, 0), Stamp(2025, 3, 31, 1)}

\* ages of the cache files found on disk, in ticks
AgeChoices ==
    {0, 6 * TicksPerDay, 7 * TicksPerDay - 1, 7 * TicksPerDay, 8 * TicksPerDay,
     29 * TicksPerDay, 30 * TicksPerDay - 1, 30 * TicksPerDay, 31 * TicksPerDay}

\* the article lists an earlier run can have cached: at most the cap
CachedLists(mk) ==
    { [i \in 1..n |-> NewArticle(PlainHit(i).title, start_date_obj(mk), i)] :
         n \in {1, max_results} }

\* the cache files an earlier run, a crash or an editor can have left for a month
FilesOnDisk(mk, t) ==
    {AbsentFile, InvalidJson}
    \cup {[cache_data(mk, t, arts) EXCEPT !.date_kind = k, !.cache_date = 0] :
             k \in {"bad", "missing"}, arts \in CachedLists(mk)}
    \cup {[cache_data(mk, t - age, <<>>) EXCEPT !.arts_valid = FALSE] :
             age \in {0, 31 * TicksPerDay}}
    \cup {cache_data(mk, t - age, arts) : age \in AgeChoices, arts \in CachedLists(mk)}

Directory(files) ==
    [k \in {m \in DOMAIN files : files[m].kind # "absent"} |-> files[k]]

IdleCollect ==
    /\ now = Stamp(2025, 1, 15, 0)
    /\ cache = <<>>
    /\ cpc = "off"
    /\ date_ranges = <<>>
    /\ idx = 1
    /\ all_articles = <<>>
    /\ month_articles = <<>>
    /\ call = NoCall
    /\ audit = 0

InitCollect ==
    /\ now \in NowChoices
    /\ \E cur \in FilesOnDisk(DateRange(now, 0).month, now),
          prev \in FilesOnDisk(DateRange(now, 1).month, now) :
          cache = Directory((DateRange(now, 0).month :> cur) @@ (DateRange(now, 1).month :> prev))
    /\ cpc = "idle"
    /\ date_ranges = <<>>
    /\ idx = 1
    /\ all_articles = <<>>
    /\ month_articles = <<>>
    /\ call = NoCall
    /\ audit = 0

NextCollect ==
    \/ StartGetNews
    \/ CheckCache
    \/ FetchFresh
    \/ SaveCache
    \/ ReturnMonth
    \/ SaveAudit

-----------------------------------------------------------------------------
(* main: the pipeline *)

\* the top-50 cut of main
FilterCap == 50

\* max_retries of every chat.completions.create of the analyzers
max_retries == 2

\* a file of the output directory; run stands for the timestamp of its name:
\* 0 for a file left by an earlier run, 1 for a file of this run
OutFile(kind, index, run, content) ==
    [kind |-> kind, index |-> index, run |-> run, content |-> content]

\* the positions of main at which a chat.completions.create is in flight
LLMStates == {"classify_llm", "risk_llm", "commentary_llm", "action_llm", "plan_llm"}

\* what the classification LLM answers for article i: a flag, or no result at all;
\* the first two articles are answered independently, the others alike
AnswerFor(i, lead, rest) == IF i <= Len(lead) THEN lead[i] ELSE rest

Answered(result) == result.is_cyber_event # "omit"

ClassifyResults(n, lead, rest) ==
    SelectSeq([i \in 1..n |->
                  [id |-> i - 1,
                   category |-> IF AnswerFor(i, lead, rest) = "True" THEN "Ransomware" ELSE "Other",
                   is_cyber_event |-> AnswerFor(i, lead, rest)]],
              Answered)

\* the outcomes of the classification call for n articles
ClassifyResponses(n) ==
    {[raised |-> TRUE, results |-> <<>>]}
    \cup {[raised |-> FALSE, results |-> ClassifyResults(n, <<a, b>>, c)] :
             a \in {"True", "False", "omit"}, b \in {"True", "False", "omit"},
             c \in {"True", "False", "omit"}}

IsCyberEvent(article) == Truthy(article.is_cyber_event)

\* the position where action point id goes in a list already sorted by priority:
\* after every element whose priority is not larger (sorted() is stable)
InsertByPriority(sorted, id, priorities) ==
    LET k == Cardinality({j \in 1..Len(sorted) : priorities[sorted[j]] <= priorities[id]})
    IN  SubSeq(sorted, 1, k) \o <<id>> \o SubSeq(sorted, k + 1, Len(sorted))

RECURSIVE SortedPrefix(_, _)
SortedPrefix(priorities, n) ==
    IF n = 0 THEN <<>>
    ELSE InsertByPriority(SortedPrefix(priorities, n - 1), n, priorities)

\* a slip of SortByPriority: the action points are taken in stored order
SortByPriority_stored_order(priorities) == [i \in 1..Len(priorities) |-> i]

\* sorted(board_action_plan.action_points, key=lambda x: x.priority), as positions
\* in action_points
SortByPriority(priorities) == SortedPrefix(priorities, Len(priorities))

\* the action_points lists the LLM can answer with, as lists of priorities
ActionPlans ==
    UNION {[1..n -> 1..MaxPriority] : n \in 0..MaxActions}

\* the value of a variable: None when it is not set, else a string that can
\* be empty
Values == {"unset", "empty", "set"}

\* os.getenv(name) after load_dotenv
getenv(env, name) == env.process[name]

\* get_env_var_priority(var_name): the line of the .env file when there is
\* one, whatever its value, else os.getenv
get_env_var_priority(env, name) ==
    IF env.dotenv[name] # "unset" THEN env.dotenv[name] ELSE getenv(env, name)

\* not value
Falsy(value) == value \in {"unset", "empty"}

\* the three keys main reads
google_cx(env) == getenv(env, "GOOGLE_CUSTOMSEARCH_CX_KEY")
google_api_key(env) == getenv(env, "GOOGLE_API_KEY")
openai_api_key(env) == get_env_var_priority(env, "OPENAI_API_KEY")

\* missing_keys, as the three tests append to it
missing_keys(env) ==
    (IF Falsy(google_cx(env)) THEN <<"GOOGLE_CUSTOMSEARCH_CX_KEY">> ELSE <<>>)
    \o (IF Falsy(google_api_key(env)) THEN <<"GOOGLE_CUSTOMSEARCH_API_KEY">> ELSE <<>>)
    \o (IF Falsy(openai_api_key(env)) THEN <<"OPENAI_API_KEY">> ELSE <<>>)

\* the variables an environment can hold
EnvNames ==
    {"GOOGLE_CUSTOMSEARCH_CX_KEY", "GOOGLE_API_KEY", "GOOGLE_CUSTOMSEARCH_API_KEY",
     "OPENAI_API_KEY"}

\* the environment of a configured installation
FullEnvironment ==
    [process |-> [name \in EnvNames |->
                     IF name = "GOOGLE_CUSTOMSEARCH_API_KEY" THEN "unset" ELSE "set"],
     dotenv  |-> [name \in {"OPENAI_API_KEY"} |-> "unset"]]

\* the configured installation and the environments in which a key is missing
Environments ==
    {FullEnvironment}
    \cup {env \in [process : [EnvNames -> Values],
                  dotenv  : [{"OPENAI_API_KEY"} -> Values]] :
             /\ missing_keys(env) # <<>>
             /\ env.process["GOOGLE_CUSTOMSEARCH_API_KEY"] # "empty"}

\* the credentials are checked; a missing one raises ValueError, caught by the
\* outer except of main
StartMain ==
    /\ mpc = "begin"
    /\ error_msg' = missing_keys(environ)
    /\ IF missing_keys(environ) = <<>>
       THEN /\ mpc' = "get_news"
            /\ started' = Append(started, "collection")
       ELSE /\ mpc' = "halt_unexpected"
            /\ UNCHANGED started
    /\ UNCHANGED <<environ,
                   news_feed, m_articles, news_files, prior_output, output,
                   cyber_risk_analysis, time_series_analysis, time_series_commentary,
                   board_action_plan, sorted_actions, plan_i, project_plan, attempt,
                   classified, risk_input, plan_calls>>
    /\ UNCHANGED notMain

\* get_news returns, having written its file of all articles; main exits when
\* there is no article, else the classification call starts
CollectNews ==
    /\ mpc = "get_news"
    /\ m_articles' = news_feed
    /\ news_files' = Put(news_files, 0, [kind |-> "collected", articles |-> news_feed])
    /\ IF news_feed = <<>>
       THEN /\ mpc' = "exit_no_articles"
            /\ UNCHANGED <<environ, error_msg,
                   started, attempt>>
       ELSE /\ mpc' = "classify_llm"
            /\ started' = Append(started, "classification")
            /\ attempt' = 1
    /\ UNCHANGED <<environ, error_msg,
                   news_feed, prior_output, output,
                   cyber_risk_analysis, time_series_analysis, time_series_commentary,
                   board_action_plan, sorted_actions, plan_i, project_plan,
                   classified, risk_input, plan_calls>>
    /\ UNCHANGED notMain

\* a failed attempt of the LLM call in flight is repeated. The repetition is the
\* work of the client library under the max_retries the call passes; the model
\* lets the call be attempted max_retries times
RetryLLM ==
    /\ mpc \in LLMStates
    /\ attempt < max_retries
    /\ attempt' = attempt + 1
    /\ UNCHANGED <<environ, error_msg,
                   mpc, news_feed, m_articles, news_files, prior_output, output,
                   cyber_risk_analysis, time_series_analysis, time_series_commentary,
                   board_action_plan, sorted_actions, plan_i, project_plan,
                   started, classified, risk_input, plan_calls>>
    /\ UNCHANGED notMain

\* categorize_articles_with_llm returns: it never raises
ClassifyNews ==
    /\ mpc = "classify_llm"
    /\ \E llm \in ClassifyResponses(Len(m_articles)) :
         m_articles' = categorize_articles_with_llm(m_articles, llm)
    /\ classified' = m_articles'
    /\ mpc' = "filter"
    /\ attempt' = 0
    /\ UNCHANGED <<environ, error_msg,
                   news_feed, news_files, prior_output, output,
                   cyber_risk_analysis, time_series_analysis, time_series_commentary,
                   board_action_plan, sorted_actions, plan_i, project_plan,
                   started, risk_input, plan_calls>>
    /\ UNCHANGED notMain

\* a slip of FilterAndSave: the cut is taken before the filter
FilterAndSave_cut_first ==
    /\ mpc = "filter"
    /\ m_articles' = SelectSeq(Take(m_articles, FilterCap), IsCyberEvent)
    /\ \E timestamp \in {0, 1} :
         news_files' = Put(news_files, timestamp, [kind |-> "filtered", articles |-> m_articles'])
    /\ mpc' = "filtered"
    /\ UNCHANGED <<environ, error_msg,
                   news_feed, prior_output, output,
                   cyber_risk_analysis, time_series_analysis, time_series_commentary,
                   board_action_plan, sorted_actions, plan_i, project_plan, attempt,
                   started, classified, risk_input, plan_calls>>
    /\ UNCHANGED notMain

\* the articles flagged as cyber events are kept, cut to the first 50 and saved to
\* news/<timestamp>.json; the timestamp has a resolution of one second, so the
\* name is that of the file of get_news when both are written in the same second
FilterAndSave ==
    /\ mpc = "filter"
    /\ m_articles' = Take(SelectSeq(m_articles, IsCyberEvent), FilterCap)
    /\ \E timestamp \in {0, 1} :
         news_files' = Put(news_files, timestamp, [kind |-> "filtered", articles |-> m_articles'])
    /\ mpc' = "filtered"
    /\ UNCHANGED <<environ, error_msg,
                   news_feed, prior_output, output,
                   cyber_risk_analysis, time_series_analysis, time_series_commentary,
                   board_action_plan, sorted_actions, plan_i, project_plan, attempt,
                   started, classified, risk_input, plan_calls>>
    /\ UNCHANGED notMain

\* analyze_emerging_risks is called and issues its LLM call
StartRisk ==
    /\ mpc = "filtered"
    /\ mpc' = "risk_llm"
    /\ risk_input' = m_articles
    /\ started' = Append(started, "risk_extraction")
    /\ attempt' = 1
    /\ UNCHANGED <<environ, error_msg,
                   news_feed, m_articles, news_files, prior_output, output,
                   cyber_risk_analysis, time_series_analysis, time_series_commentary,
                   board_action_plan, sorted_actions, plan_i, project_plan,
                   classified, plan_calls>>
    /\ UNCHANGED notMain

\* a slip of RiskFails: what the call produced before it failed is written
RiskFails_partial_write ==
    /\ mpc = "risk_llm"
    /\ mpc' = "halt_risk"
    /\ output' = output \cup {OutFile("CyberRiskAnalysis", 0, 1, <<>>)}
    /\ UNCHANGED <<environ, error_msg,
                   news_feed, m_articles, news_files, prior_output,
                   cyber_risk_analysis, time_series_analysis, time_series_commentary,
                   board_action_plan, sorted_actions, plan_i, project_plan, attempt, started,
                   classified, risk_input, plan_calls>>
    /\ UNCHANGED notMain

\* the LLM call of analyze_emerging_risks raises: nothing is written, main prints
\* the error and returns
RiskFails ==
    /\ mpc = "risk_llm"
    /\ mpc' = "halt_risk"
    /\ UNCHANGED <<environ, error_msg,
                   news_feed, m_articles, news_files, prior_output, output,
                   cyber_risk_analysis, time_series_analysis, time_series_commentary,
                   board_action_plan, sorted_actions, plan_i, project_plan, attempt, started,
                   classified, risk_input, plan_calls>>
    /\ UNCHANGED notMain

\* a slip of RiskReturns: the analysis is returned and not saved
RiskReturns_unsaved ==
    /\ mpc = "risk_llm"
    /\ cyber_risk_analysis' = <<1>>
    /\ mpc' = "time_series"
    /\ attempt' = 0
    /\ UNCHANGED <<environ, error_msg,
                   news_feed, m_articles, news_files, prior_output, output,
                   time_series_analysis, time_series_commentary, board_action_plan,
                   sorted_actions, plan_i, project_plan, started, classified,
                   risk_input, plan_calls>>
    /\ UNCHANGED notMain

\* the LLM call of analyze_emerging_risks returns: the analysis is written to
\* CyberRiskAnalysis_<timestamp>.json and returned
RiskReturns ==
    /\ mpc = "risk_llm"
    /\ cyber_risk_analysis' = <<1>>
    /\ output' = output \cup {OutFile("CyberRiskAnalysis", 0, 1, cyber_risk_analysis')}
    /\ mpc' = "time_series"
    /\ attempt' = 0
    /\ UNCHANGED <<environ, error_msg,
                   news_feed, m_articles, news_files, prior_output,
                   time_series_analysis, time_series_commentary, board_action_plan,
                   sorted_actions, plan_i, project_plan, started, classified,
                   risk_input, plan_calls>>
    /\ UNCHANGED notMain

\* get_historical_news_summary and analyze_time_series (no LLM call): the analysis
\* is written to TimeSeriesAnalysis_<timestamp>.json; then
\* generate_time_series_commentary issues its LLM call
AnalyzeTimeSeries ==
    /\ mpc = "time_series"
    /\ time_series_analysis' =
          <<Cardinality(DOMAIN get_historical_news_summary(m_articles))>>
    /\ output' = output \cup {OutFile("TimeSeriesAnalysis", 0, 1, time_series_analysis')}
    /\ started' = Append(started, "time_series")
    /\ mpc' = "commentary_llm"
    /\ attempt' = 1
    /\ UNCHANGED <<environ, error_msg,
                   news_feed, m_articles, news_files, prior_output,
                   cyber_risk_analysis, time_series_commentary, board_action_plan,
                   sorted_actions, plan_i, project_plan, classified, risk_input,
                   plan_calls>>
    /\ UNCHANGED notMain

\* the commentary call raises: main prints the error and returns
CommentaryFails ==
    /\ mpc = "commentary_llm"
    /\ mpc' = "halt_time_series"
    /\ UNCHANGED <<environ, error_msg,
                   news_feed, m_articles, news_files, prior_output, output,
                   cyber_risk_analysis, time_series_analysis, time_series_commentary,
                   board_action_plan, sorted_actions, plan_i, project_plan, attempt, started,
                   classified, risk_input, plan_calls>>
    /\ UNCHANGED notMain

\* the commentary call returns: the text is written to
\* TimeSeriesCommentary_<timestamp>.txt
CommentaryReturns ==
    /\ mpc = "commentary_llm"
    /\ time_series_commentary' = <<1>>
    /\ output' = output \cup {OutFile("TimeSeriesCommentary", 0, 1, time_series_commentary')}
    /\ mpc' = "action"
    /\ attempt' = 0
    /\ UNCHANGED <<environ, error_msg,
                   news_feed, m_articles, news_files, prior_output,
                   cyber_risk_analysis, time_series_analysis, board_action_plan,
                   sorted_actions, plan_i, project_plan, started, classified,
                   risk_input, plan_calls>>
    /\ UNCHANGED notMain

\* generate_board_action_plan is called and issues its LLM call
StartActionPlan ==
    /\ mpc = "action"
    /\ started' = Append(started, "action_planning")
    /\ mpc' = "action_llm"
    /\ attempt' = 1
    /\ UNCHANGED <<environ, error_msg,
                   news_feed, m_articles, news_files, prior_output, output,
                   cyber_risk_analysis, time_series_analysis, time_series_commentary,
                   board_action_plan, sorted_actions, plan_i, project_plan, classified,
                   risk_input, plan_calls>>
    /\ UNCHANGED notMain

\* the action plan call raises: main prints the error and returns
ActionPlanFails ==
    /\ mpc = "action_llm"
    /\ mpc' = "halt_action"
    /\ UNCHANGED <<environ, error_msg,
                   news_feed, m_articles, news_files, prior_output, output,
                   cyber_risk_analysis, time_series_analysis, time_series_commentary,
                   board_action_plan, sorted_actions, plan_i, project_plan, attempt, started,
                   classified, risk_input, plan_calls>>
    /\ UNCHANGED notMain

\* the action plan call returns: the plan is written to
\* BoardActionPlan_<timestamp>.json
ActionPlanReturns ==
    /\ mpc = "action_llm"
    /\ \E action_points \in ActionPlans :
         /\ board_action_plan' = <<action_points>>
         /\ output' = output \cup {OutFile("BoardActionPlan", 0, 1, action_points)}
    /\ mpc' = "sort"
    /\ attempt' = 0
    /\ UNCHANGED <<environ, error_msg,
                   news_feed, m_articles, news_files, prior_output,
                   cyber_risk_analysis, time_series_analysis, time_series_commentary,
                   sorted_actions, plan_i, project_plan, started, classified,
                   risk_input, plan_calls>>
    /\ UNCHANGED notMain

\* project planning starts: the action points are sorted by priority
SortActions ==
    /\ mpc = "sort"
    /\ sorted_actions' = SortByPriority(board_action_plan[1])
    /\ plan_i' = 0
    /\ started' = Append(started, "project_planning")
    /\ mpc' = "plans"
    /\ UNCHANGED <<environ, error_msg,
                   news_feed, m_articles, news_files, prior_output, output,
                   cyber_risk_analysis, time_series_analysis, time_series_commentary,
                   board_action_plan, project_plan, attempt, classified, risk_input,
                   plan_calls>>
    /\ UNCHANGED notMain

\* the loop takes the next action point and create_project_plan issues its LLM call
StartPlan ==
    /\ mpc = "plans"
    /\ plan_i < Len(sorted_actions)
    /\ plan_calls' = Append(plan_calls, sorted_actions[plan_i + 1])
    /\ mpc' = "plan_llm"
    /\ attempt' = 1
    /\ UNCHANGED <<environ, error_msg,
                   news_feed, m_articles, news_files, prior_output, output,
                   cyber_risk_analysis, time_series_analysis, time_series_commentary,
                   board_action_plan, sorted_actions, plan_i, project_plan, started,
                   classified, risk_input>>
    /\ UNCHANGED notMain

\* the project plan call raises: main prints the error and returns
PlanFails ==
    /\ mpc = "plan_llm"
    /\ mpc' = "halt_plans"
    /\ UNCHANGED <<environ, error_msg,
                   news_feed, m_articles, news_files, prior_output, output,
                   cyber_risk_analysis, time_series_analysis, time_series_commentary,
                   board_action_plan, sorted_actions, plan_i, project_plan, attempt, started,
                   classified, risk_input, plan_calls>>
    /\ UNCHANGED notMain

\* the project plan call returns: the plan is written to
\* ProjectPlan_<i+1>_<timestamp>.json
PlanReturns ==
    /\ mpc = "plan_llm"
    /\ output' = output \cup {OutFile("ProjectPlan", plan_i + 1, 1, <<sorted_actions[plan_i + 1]>>)}
    /\ plan_i' = plan_i + 1
    /\ mpc' = "plans"
    /\ attempt' = 0
    /\ UNCHANGED <<environ, error_msg,
                   news_feed, m_articles, news_files, prior_output,
                   cyber_risk_analysis, time_series_analysis, time_series_commentary,
                   board_action_plan, sorted_actions, project_plan, started,
                   classified, risk_input, plan_calls>>
    /\ UNCHANGED notMain

\* the loop over sorted_actions is over
PlansDone ==
    /\ mpc = "plans"
    /\ plan_i = Len(sorted_actions)
    /\ mpc' = "consolidate"
    /\ UNCHANGED <<environ, error_msg,
                   news_feed, m_articles, news_files, prior_output, output,
                   cyber_risk_analysis, time_series_analysis, time_series_commentary,
                   board_action_plan, sorted_actions, plan_i, project_plan, attempt,
                   started, classified, risk_input, plan_calls>>
    /\ UNCHANGED notMain

\* every ProjectPlan_*.json of the output directory, of this run or of an earlier
\* one, is read into the consolidated plan
Consolidate ==
    /\ mpc = "consolidate"
    /\ LET plans == {f \in output : f.kind = "ProjectPlan"}
       IN  project_plan' = IF plans = {} THEN <<>> ELSE <<plans>>
    /\ started' = Append(started, "assembly")
    /\ mpc' = "assemble"
    /\ UNCHANGED <<environ, error_msg,
                   news_feed, m_articles, news_files, prior_output, output,
                   cyber_risk_analysis, time_series_analysis, time_series_commentary,
                   board_action_plan, sorted_actions, plan_i, attempt, classified,
                   risk_input, plan_calls>>
    /\ UNCHANGED notMain

\* with every piece of data present DashboardGenerator is constructed with keyword
\* arguments its __init__(self, output_dir) does not take: the TypeError reaches the
\* outer except of main; with no project plan main prints an error and finishes
Assemble ==
    /\ mpc = "assemble"
    /\ IF /\ cyber_risk_analysis # <<>> /\ board_action_plan # <<>> /\ project_plan # <<>>
          /\ time_series_analysis # <<>> /\ time_series_commentary # <<>>
       THEN mpc' = "halt_unexpected"
       ELSE mpc' = "finished"
    /\ UNCHANGED <<environ, error_msg,
                   news_feed, m_articles, news_files, prior_output, output,
                   cyber_risk_analysis, time_series_analysis, time_series_commentary,
                   board_action_plan, sorted_actions, plan_i, project_plan, attempt,
                   started, classified, risk_input, plan_calls>>
    /\ UNCHANGED notMain

\* the state of main before its first statement
MainAtStart ==
    /\ mpc = "begin"
    /\ m_articles = <<>>
    /\ news_files = <<>>
    /\ output = prior_output
    /\ cyber_risk_analysis = <<>>
    /\ time_series_analysis = <<>>
    /\ time_series_commentary = <<>>
    /\ board_action_plan = <<>>
    /\ sorted_actions = <<>>
    /\ plan_i = 0
    /\ project_plan = <<>>
    /\ attempt = 0
    /\ started = <<>>
    /\ classified = <<>>
    /\ risk_input = <<>>
    /\ plan_calls = <<>>
    /\ error_msg = <<>>

IdleMain ==
    /\ mpc = "idle"
    /\ news_feed = <<>>
    /\ m_articles = <<>>
    /\ news_files = <<>>
    /\ prior_output = {}
    /\ output = {}
    /\ cyber_risk_analysis = <<>>
    /\ time_series_analysis = <<>>
    /\ time_series_commentary = <<>>
    /\ board_action_plan = <<>>
    /\ sorted_actions = <<>>
    /\ plan_i = 0
    /\ project_plan = <<>>
    /\ attempt = 0
    /\ started = <<>>
    /\ classified = <<>>
    /\ risk_input = <<>>
    /\ plan_calls = <<>>
    /\ environ = FullEnvironment
    /\ error_msg = <<>>

\* what an earlier run can have left in the output directory
PriorOutputs == {{}, {OutFile("ProjectPlan", 1, 0, <<1>>)}}

\* a run of main on a short feed
InitMain ==
    /\ news_feed \in {Feed(n) : n \in 0..MaxFeed}
    /\ prior_output \in PriorOutputs
    /\ environ \in Environments
    /\ MainAtStart

NextMain ==
    \/ StartMain
    \/ CollectNews
    \/ RetryLLM
    \/ ClassifyNews
    \/ FilterAndSave
    \/ StartRisk
    \/ RiskFails
    \/ RiskReturns
    \/ AnalyzeTimeSeries
    \/ CommentaryFails
    \/ CommentaryReturns
    \/ StartActionPlan
    \/ ActionPlanFails
    \/ ActionPlanReturns
    \/ SortActions
    \/ StartPlan
    \/ PlanFails
    \/ PlanReturns
    \/ PlansDone
    \/ Consolidate
    \/ Assemble

\* a run of main on a feed longer than the cut, up to the call of risk extraction
InitFilter ==
    /\ news_feed \in {Feed(n) : n \in 0..MaxLongFeed}
    /\ prior_output = {}
    /\ environ = FullEnvironment
    /\ MainAtStart

NextFilter ==
    \/ StartMain
    \/ CollectNews
    \/ RetryLLM
    \/ ClassifyNews
    \/ FilterAndSave
    \/ StartRisk

-----------------------------------------------------------------------------
(* convert_to_ascii *)

\* The characters of a text, by the classes convert_to_ascii tells apart: an
\* ASCII letter, hyphen and full stop; the space and the newline; an ASCII
\* control character; and the non-ASCII en dash, em dash, ellipsis and degree sign
Chars == {"a", "-", ".", "SP", "NL", "NUL", "EN", "EM", "ELL", "DEG"}

IsAscii(c) == c \notin {"EN", "EM", "ELL", "DEG"}

\* text.encode('ascii', errors='ignore').decode('ascii')
EncodeIgnore(text) == SelectSeq(text, IsAscii)

\* the keys of the replacements dictionary that are single typographic
\* characters, in the order of the dictionary (the registered, copyright,
\* trademark and plus-minus signs are treated like the degree sign; the two
\* remaining keys are the ASCII double quote, replaced by itself, and a
\* 19-character ASCII string holding a newline, longer than any text here)
ReplacementKeys == <<"EN", "EM", "ELL", "DEG">>

ReplacementOf(key) ==
    CASE key = "EN"  -> <<"-">>
      [] key = "EM"  -> <<"-">>
      [] key = "ELL" -> <<".", ".", ".">>
      [] key = "DEG" -> <<"SP", "a">>

RECURSIVE ReplaceChar(_, _, _)
\* ascii_text.replace(unicode_char, ascii_replacement)
ReplaceChar(text, key, value) ==
    IF text = <<>> THEN <<>>
    ELSE (IF Head(text) = key THEN value ELSE <<Head(text)>>)
         \o ReplaceChar(Tail(text), key, value)

RECURSIVE ReplaceFrom(_, _)
\* the loop over replacements.items(), from the k-th key on
ReplaceFrom(text, k) ==
    IF k > Len(ReplacementKeys) THEN text
    ELSE ReplaceFrom(ReplaceChar(text, ReplacementKeys[k], ReplacementOf(ReplacementKeys[k])),
                     k + 1)

\* char.isprintable() or char in '\n\r\t '
PrintableOrSpace(c) == c # "NUL"

IsSpace(c) == c \in {"SP", "NL"}

RECURSIVE JoinWords(_, _, _)
\* ' '.join(text.split()): runs of whitespace become one space, and whitespace
\* at either end is dropped
JoinWords(text, out, gap) ==
    IF text = <<>> THEN out
    ELSE IF IsSpace(Head(text)) THEN JoinWords(Tail(text), out, TRUE)
    ELSE JoinWords(Tail(text),
                   IF gap /\ out # <<>> THEN out \o <<"SP", Head(text)>>
                   ELSE Append(out, Head(text)),
                   FALSE)

\* a slip of convert_to_ascii: the whitespace is cleaned up before the
\* non-printable characters are removed
convert_to_ascii_spaces_first(text) ==
    IF text = <<>> THEN <<>>
    ELSE SelectSeq(JoinWords(ReplaceFrom(EncodeIgnore(text), 1), <<>>, FALSE),
                   PrintableOrSpace)

\* convert_to_ascii: the non-ASCII characters are dropped by the encoding step
\* before the replacements are looked for
convert_to_ascii(text) ==
    IF text = <<>> THEN <<>>
    ELSE JoinWords(SelectSeq(ReplaceFrom(EncodeIgnore(text), 1), PrintableOrSpace),
                   <<>>, FALSE)

\* the texts of up to MaxText characters
Texts == UNION {[1..n -> Chars] : n \in 0..MaxText}

\* convert_to_ascii is called on the text
ConvertOnce ==
    /\ apc = "input"
    /\ a_once' = convert_to_ascii(a_text)
    /\ apc' = "once"
    /\ UNCHANGED <<a_text, a_twice>>
    /\ UNCHANGED notAscii

\* convert_to_ascii is called on its own result
ConvertTwice ==
    /\ apc = "once"
    /\ a_twice' = convert_to_ascii(a_once)
    /\ apc' = "twice"
    /\ UNCHANGED <<a_text, a_once>>
    /\ UNCHANGED notAscii

IdleAscii ==
    /\ apc = "idle"
    /\ a_text = <<>>
    /\ a_once = <<>>
    /\ a_twice = <<>>

InitAscii ==
    /\ apc = "input"
    /\ a_text \in Texts
    /\ a_once = <<>>
    /\ a_twice = <<>>

NextAscii ==
    \/ ConvertOnce
    \/ ConvertTwice

RECURSIVE SumOf(_)
\* sum(d.values())
SumOf(d) ==
    IF DOMAIN d = {} THEN 0
    ELSE LET k == CHOOSE x \in DOMAIN d : TRUE
         IN  d[k] + SumOf([j \in DOMAIN d \ {k} |-> d[j]])

-----------------------------------------------------------------------------
(* calculate_overall_trend and calculate_most_volatile_category *)

\* 'YYYY-MM' strings compare as the months do
MonthBefore(a, b) == a[1] < b[1] \/ (a[1] = b[1] /\ a[2] < b[2])

RECURSIVE SortedMonths(_)
\* sorted(monthly_data.keys())
SortedMonths(keys) ==
    IF keys = {} THEN <<>>
    ELSE LET first == CHOOSE k \in keys : \A other \in keys \ {k} : MonthBefore(k, other)
         IN  <<first>> \o SortedMonths(keys \ {first})

RECURSIVE Sum(_)
\* sum(list)
Sum(list) == IF list = <<>> THEN 0 ELSE Head(list) + Sum(Tail(list))

\* the trend of a list of monthly totals; second_half > first_half * 1.1 and
\* second_half < first_half * 0.9 are decided in integers (for totals of this
\* size the floating-point products decide the same way)
TrendOf(monthly_counts) ==
    LET half        == Len(monthly_counts) \div 2
        first_half  == Sum(SubSeq(monthly_counts, 1, half))
        second_half == Sum(SubSeq(monthly_counts, half + 1, Len(monthly_counts)))
    IN  IF 10 * second_half > 11 * first_half THEN "increasing"
        ELSE IF 10 * second_half < 9 * first_half THEN "decreasing"
        ELSE "stable"

\* a slip of calculate_overall_trend: the months are taken latest first, the
\* order in which get_news collects them
calculate_overall_trend_latest_first(data) ==
    IF Cardinality(DOMAIN data) < 2 THEN "insufficient_data"
    ELSE LET sorted_months == SortedMonths(DOMAIN data)
             n == Len(sorted_months)
         IN  TrendOf([i \in 1..n |-> data[sorted_months[n + 1 - i]].total_count])

\* calculate_overall_trend(monthly_data)
calculate_overall_trend(data) ==
    IF Cardinality(DOMAIN data) < 2 THEN "insufficient_data"
    ELSE LET sorted_months == SortedMonths(DOMAIN data)
         IN  TrendOf([i \in 1..Len(sorted_months) |-> data[sorted_months[i]].total_count])

\* the categories of any month
AllCategories(data) == UNION {DOMAIN data[mk].categories : mk \in DOMAIN data}

\* counts: the category's count in every month, a missing month counting zero
\* (the months are gone through in key order here; the sums do not depend on it)
CountsOf(data, category) ==
    LET months == SortedMonths(DOMAIN data)
    IN  [i \in 1..Len(months) |-> GetOr0(data[months[i]].categories, category)]

\* n * n * variance of the category's monthly counts: n * sum(c^2) - sum(c)^2,
\* which orders the categories as the variance does
ScaledVariance(data, category) ==
    LET counts == CountsOf(data, category)
        n      == Len(counts)
    IN  n * Sum([i \in 1..n |-> counts[i] * counts[i]]) - Sum(counts) * Sum(counts)

\* a slip of calculate_most_volatile_category: the category with the largest
\* total count is chosen
calculate_most_volatile_category_largest(data) ==
    IF Cardinality(DOMAIN data) < 2 THEN {"insufficient_data"}
    ELSE IF AllCategories(data) = {} THEN {"none"}
    ELSE {c \in AllCategories(data) :
             \A other \in AllCategories(data) :
                 Sum(CountsOf(data, other)) <= Sum(CountsOf(data, c))}

\* calculate_most_volatile_category(monthly_data): the results it can return.
\* max() takes the first largest variance in the iteration order of a set of
\* strings, which differs from process to process, so any category of largest
\* variance can be returned
calculate_most_volatile_category(data) ==
    IF Cardinality(DOMAIN data) < 2 THEN {"insufficient_data"}
    ELSE IF AllCategories(data) = {} THEN {"none"}
    ELSE {c \in AllCategories(data) :
             \A other \in AllCategories(data) :
                 ScaledVariance(data, other) <= ScaledVariance(data, c)}

\* the month keys of the n months up to March 2025
TrendMonth(i) == RollBack(2025, 4 - i)

\* monthly totals around the 10 % thresholds
TrendTotals == {9, 10, 11, 15}

\* the per-category counts of one month
VolChoices ==
    {<<>>,
     [c \in {"Other"} |-> 1],
     [c \in {"Ransomware"} |-> 2],
     [c \in {"Phishing"} |-> 8],
     [c \in {"Ransomware", "Phishing"} |-> 2],
     [c \in {"Ransomware", "Other"} |-> IF c = "Ransomware" THEN 3 ELSE 2]}

\* monthly data with the given totals, all in one category
TotalsData(totals) ==
    [mk \in {TrendMonth(i) : i \in 1..Len(totals)} |->
        LET i == CHOOSE j \in 1..Len(totals) : TrendMonth(j) = mk
        IN  [total_count |-> totals[Len(totals) + 1 - i],
             categories  |-> [c \in {"Other"} |-> totals[Len(totals) + 1 - i]]]]

\* monthly data with the given per-category counts
CategoryData(counts) ==
    [mk \in {TrendMonth(i) : i \in 1..Len(counts)} |->
        LET i == CHOOSE j \in 1..Len(counts) : TrendMonth(j) = mk
        IN  [total_count |-> SumOf(counts[Len(counts) + 1 - i]),
             categories  |-> counts[Len(counts) + 1 - i]]]

\* _create_analysis_from_data evaluates calculate_overall_trend
CalculateTrend ==
    /\ tpc = "data"
    /\ overall_trend' = calculate_overall_trend(ts_monthly_data)
    /\ tpc' = "trend"
    /\ UNCHANGED <<ts_monthly_data, most_volatile_category>>
    /\ UNCHANGED notTrend

\* _create_analysis_from_data evaluates calculate_most_volatile_category
CalculateVolatile ==
    /\ tpc = "trend"
    /\ most_volatile_category' \in calculate_most_volatile_category(ts_monthly_data)
    /\ tpc' = "done"
    /\ UNCHANGED <<ts_monthly_data, overall_trend>>
    /\ UNCHANGED notTrend

IdleTrend ==
    /\ tpc = "idle"
    /\ ts_monthly_data = <<>>
    /\ overall_trend = None
    /\ most_volatile_category = None

InitTrend ==
    /\ tpc = "data"
    /\ \/ \E n \in 0..MaxTrendMonths : \E totals \in [1..n -> TrendTotals] :
             ts_monthly_data = TotalsData(totals)
       \/ \E n \in 0..MaxVolMonths : \E counts \in [1..n -> VolChoices] :
             ts_monthly_data = CategoryData(counts)
    /\ overall_trend = None
    /\ most_volatile_category = None

NextTrend ==
    \/ CalculateTrend
    \/ CalculateVolatile

-----------------------------------------------------------------------------
-----------------------------------------------------------------------------
(* run_google_search *)

\* pages: int = 10
pages == 10

\* time.sleep(60) before the retry of a rate-limited request
BackOff == 60

\* the answers requests.get can give: an exception of the transport (timeout,
\* connection error), or a response with a status code and, when it is 200, a
\* number of items
NoResponse == [raised |-> FALSE, status_code |-> 0, items |-> 0]

Responses ==
    {[raised |-> TRUE, status_code |-> 0, items |-> 0]}
    \cup {[raised |-> FALSE, status_code |-> 200, items |-> n] : n \in 0..MaxItems}
    \cup {[raised |-> FALSE, status_code |-> s, items |-> 0] : s \in {429, 500}}

\* a slip of the try block: a rate-limited page is given up at once
RequestPage_no_retry(first, second) ==
    [requests |-> 1,
     slept    |-> 0,
     second   |-> NoResponse,
     failed   |-> first.raised \/ first.status_code >= 400,
     results  |-> IF first.raised \/ first.status_code >= 400 THEN 0 ELSE first.items]

\* the try block of one page: the request, the single retry after the back-off
\* when the status is 429, raise_for_status, and the items of the answer.
\* An exception of either request and the HTTPError of raise_for_status are
\* RequestExceptions
RequestPage(first, second) ==
    IF first.raised
    THEN [requests |-> 1, slept |-> 0, second |-> NoResponse, failed |-> TRUE, results |-> 0]
    ELSE LET retried  == first.status_code = 429
             response == IF retried THEN second ELSE first
             failed   == response.raised \/ response.status_code >= 400
         IN  [requests |-> IF retried THEN 2 ELSE 1,
              slept    |-> IF retried THEN BackOff ELSE 0,
              second   |-> IF retried THEN second ELSE NoResponse,
              failed   |-> failed,
              results  |-> IF failed THEN 0 ELSE response.items]

\* one pass of the loop over the pages
SearchPage ==
    /\ gpc = "loop"
    /\ g_page < pages
    /\ \E first \in Responses, second \in Responses :
          LET page == RequestPage(first, second)
          IN  /\ g_first' = first
              /\ g_second' = page.second
              /\ page_requests' = page.requests
              /\ page_sleeps' = page.slept
              /\ g_before' = all_results
              /\ IF page.failed
                 THEN /\ g_outcome' = "error"
                      /\ gpc' = "break"
                      /\ UNCHANGED <<g_page, all_results>>
                 ELSE IF page.results = 0
                 THEN /\ g_outcome' = "empty"
                      /\ gpc' = "break"
                      /\ UNCHANGED <<g_page, all_results>>
                 ELSE /\ g_outcome' = "extended"
                      /\ all_results' = all_results + page.results
                      /\ g_page' = g_page + 1
                      /\ gpc' = "loop"
    /\ UNCHANGED notSearch

\* return all_results, after a break or after the last page
SearchReturn ==
    /\ \/ gpc = "break"
       \/ gpc = "loop" /\ g_page = pages
    /\ gpc' = "returned"
    /\ UNCHANGED <<g_page, all_results, g_first, g_second, page_requests, page_sleeps,
                   g_before, g_outcome>>
    /\ UNCHANGED notSearch

IdleSearch ==
    /\ gpc = "idle"
    /\ g_page = 0
    /\ all_results = 0
    /\ g_first = NoResponse
    /\ g_second = NoResponse
    /\ page_requests = 0
    /\ page_sleeps = 0
    /\ g_before = 0
    /\ g_outcome = None

InitSearch ==
    /\ gpc = "loop"
    /\ g_page = 0
    /\ all_results = 0
    /\ g_first = NoResponse
    /\ g_second = NoResponse
    /\ page_requests = 0
    /\ page_sleeps = 0
    /\ g_before = 0
    /\ g_outcome = None

NextSearch ==
    \/ SearchPage
    \/ SearchReturn

-----------------------------------------------------------------------------
(* analyze_emerging_risks and the validation of EmergingRisk *)

\* scores an answer of the model can carry: the ends of the range and the
\* values up to MaxOutside beyond them
ScoreChoices == {1, 10} \cup {1 - k : k \in 1..MaxOutside} \cup {10 + k : k \in 1..MaxOutside}

\* the score fields of an EmergingRisk as the answer gives them
RawRisks == [impact_score : ScoreChoices, likelihood_score : ScoreChoices]

\* the emerging_risks of an answer: none, one or two risks
RawAnalyses == UNION {[1..n -> RawRisks] : n \in {0, 1, 2}}

\* Field(..., ge=1, le=10)
ScoreValid(score) == score >= 1 /\ score <= 10

\* EmergingRisk(**fields) validates
EmergingRiskValid(risk) ==
    ScoreValid(risk.impact_score) /\ ScoreValid(risk.likelihood_score)

\* a slip of the model: scores out of range are moved to its nearest end
CyberRiskAnalysis_clamped(raw) ==
    LET clamp(score) == IF score < 1 THEN 1 ELSE IF score > 10 THEN 10 ELSE score
    IN  [valid |-> TRUE,
         value |-> [i \in 1..Len(raw) |->
                       [impact_score     |-> clamp(raw[i].impact_score),
                        likelihood_score |-> clamp(raw[i].likelihood_score)]]]

\* CyberRiskAnalysis(**fields): the model when every EmergingRisk validates,
\* else a ValidationError
CyberRiskAnalysis(raw) ==
    IF \A i \in 1..Len(raw) : EmergingRiskValid(raw[i])
    THEN [valid |-> TRUE, value |-> raw]
    ELSE [valid |-> FALSE, value |-> <<>>]

\* convert_model_to_ascii on a CyberRiskAnalysis: the strings are converted,
\* the scores are kept, and the model is created anew from the dictionary
convert_risks_to_ascii(analysis) == CyberRiskAnalysis(analysis)

\* one attempt of the call: the answer is parsed into the response model. A
\* valid one is written to the report file and returned; an invalid one is a
\* failed attempt, repeated while attempts are left and raised after that
AttemptRisk ==
    /\ rpc = "call"
    /\ \E raw \in RawAnalyses :
          LET parsed == CyberRiskAnalysis(raw)
          IN  /\ r_response' = <<raw>>
              /\ IF parsed.valid
                 THEN LET ascii_risk_analysis == convert_risks_to_ascii(parsed.value)
                      IN  /\ risk_analysis' = <<parsed.value>>
                          /\ IF ascii_risk_analysis.valid
                             THEN /\ risk_file' = <<ascii_risk_analysis.value>>
                                  /\ rpc' = "returned"
                             ELSE /\ risk_file' = risk_file
                                  /\ rpc' = "raised"
                          /\ UNCHANGED r_attempt
                 ELSE /\ IF r_attempt < max_retries
                         THEN /\ r_attempt' = r_attempt + 1
                              /\ rpc' = "call"
                         ELSE /\ rpc' = "raised"
                              /\ UNCHANGED r_attempt
                      /\ UNCHANGED <<risk_analysis, risk_file>>
    /\ UNCHANGED notRisk

\* the call fails for another reason (the API, the network)
RiskCallFails ==
    /\ rpc = "call"
    /\ r_response' = <<>>
    /\ rpc' = "raised"
    /\ UNCHANGED <<r_attempt, risk_analysis, risk_file>>
    /\ UNCHANGED notRisk

IdleRisk ==
    /\ rpc = "idle"
    /\ r_attempt = 0
    /\ r_response = <<>>
    /\ risk_analysis = <<>>
    /\ risk_file = <<>>

InitRisk ==
    /\ rpc = "call"
    /\ r_attempt = 1
    /\ r_response = <<>>
    /\ risk_analysis = <<>>
    /\ risk_file = <<>>

NextRisk ==
    \/ AttemptRisk
    \/ RiskCallFails

-----------------------------------------------------------------------------
(* clear_cache *)

\* the moment of the call
ClearNow == Stamp(2025, 1, 15, 0)

\* the directory does not exist
NoDirectory == [exists |-> FALSE, json |-> <<>>, other |-> {}]

\* the states the cache directory can be found in: missing, or holding for each
\* of two months no file or a cache file of any content and age, and possibly
\* a file that is not a *.json file
CacheDirs ==
    {NoDirectory}
    \cup {[exists |-> TRUE,
           json   |-> Directory((DateRange(ClearNow, 0).month :> cur)
                                @@ (DateRange(ClearNow, 1).month :> prev)),
           other  |-> others] :
             cur \in FilesOnDisk(DateRange(ClearNow, 0).month, ClearNow),
             prev \in FilesOnDisk(DateRange(ClearNow, 1).month, ClearNow),
             others \in SUBSET {"README.txt"}}

\* a slip of clear_cache: only the entries that are no longer fresh are deleted
clear_cache_stale_only(dir) ==
    IF dir.exists
    THEN [dir EXCEPT !.json =
             [mk \in {k \in DOMAIN dir.json :
                         ~(dir.json[k].kind = "entry" /\ dir.json[k].date_kind = "ok"
                           /\ ClearNow - dir.json[k].cache_date < 7 * TicksPerDay)}
                 |-> dir.json[mk]]]
    ELSE dir

\* clear_cache(cache_dir): every file matching *.json is unlinked when the
\* directory exists
clear_cache(dir) ==
    IF dir.exists
    THEN [dir EXCEPT !.json = <<>>]
    ELSE dir

\* clear_cache is called
ClearOnce ==
    /\ kpc = "start"
    /\ cache_dir' = clear_cache(cache_dir)
    /\ k_once' = clear_cache(cache_dir)
    /\ kpc' = "once"
    /\ UNCHANGED k_before
    /\ UNCHANGED notClear

\* clear_cache is called again
ClearTwice ==
    /\ kpc = "once"
    /\ cache_dir' = clear_cache(cache_dir)
    /\ kpc' = "twice"
    /\ UNCHANGED <<k_before, k_once>>
    /\ UNCHANGED notClear

IdleClear ==
    /\ kpc = "idle"
    /\ cache_dir = NoDirectory
    /\ k_before = NoDirectory
    /\ k_once = NoDirectory

InitClear ==
    /\ kpc = "start"
    /\ cache_dir \in CacheDirs
    /\ k_before = cache_dir
    /\ k_once = NoDirectory

NextClear ==
    \/ ClearOnce
    \/ ClearTwice

-----------------------------------------------------------------------------
(* get_news: the loop that builds date_ranges *)

\* the days a run can start on: the first and the 28th of every month of a leap
\* year and of the year after it
WindowNows == {Stamp(y, mo, d, 0) : y \in {2024, 2025}, mo \in 1..12, d \in {1, 28}}

\* one pass of the loop for i in range(months_back): the window is appended
WindowStep ==
    /\ wpc = "loop"
    /\ Len(w_ranges) < w_months_back
    /\ w_ranges' = Append(w_ranges, DateRange(w_now, Len(w_ranges)))
    /\ UNCHANGED <<wpc, w_now, w_months_back>>
    /\ UNCHANGED notWindows

\* the loop is over
WindowsDone ==
    /\ wpc = "loop"
    /\ Len(w_ranges) = w_months_back
    /\ wpc' = "done"
    /\ UNCHANGED <<w_now, w_months_back, w_ranges>>
    /\ UNCHANGED notWindows

IdleWindows ==
    /\ wpc = "idle"
    /\ w_now = 0
    /\ w_months_back = 0
    /\ w_ranges = <<>>

InitWindows ==
    /\ wpc = "loop"
    /\ w_now \in WindowNows
    /\ w_months_back \in 1..MaxWindows
    /\ w_ranges = <<>>

NextWindows ==
    \/ WindowStep
    \/ WindowsDone

(* get_cache_info *)

\* the moment of the call
InfoNow == Stamp(2025, 1, 15, 0)

\* cache_info before the directory is looked at
NoInfo ==
    [exists |-> FALSE, files |-> <<>>, total_articles |-> 0,
     oldest_cache |-> <<>>, newest_cache |-> <<>>]

\* data.get('cache_date'): the timestamp as the file holds it, None when the
\* key is missing
cache_date_held(file) == IF file.date_kind = "missing" THEN <<>> ELSE <<file.cache_date>>

\* the entry appended for a file whose fields were read
FullRecord(cache_file, file) ==
    [file |-> cache_file, error |-> FALSE, month |-> file.month,
     cache_date |-> cache_date_held(file), article_count |-> file.count,
     age_days |-> DeltaDays(InfoNow, cache_date_of(file))]

\* the entry appended by the except branch
ErrorMarker(cache_file) ==
    [file |-> cache_file, error |-> TRUE, month |-> <<0, 0>>,
     cache_date |-> <<>>, article_count |-> 0, age_days |-> 0]

\* json.load or datetime.fromisoformat raises on the file
InfoRaises(file) == file.kind = "invalid_json" \/ file.date_kind = "bad"

\* the body of the loop over the cache files
InfoBody(info, cache_file, file) ==
    IF InfoRaises(file)
    THEN [info EXCEPT !.files = Append(@, ErrorMarker(cache_file))]
    ELSE LET cache_date == cache_date_of(file)
         IN  [info EXCEPT
                !.files = Append(@, FullRecord(cache_file, file)),
                !.total_articles = @ + file.count,
                !.oldest_cache = IF @ = <<>> \/ cache_date < @[1]
                                 THEN cache_date_held(file) ELSE @,
                !.newest_cache = IF @ = <<>> \/ cache_date > @[1]
                                 THEN cache_date_held(file) ELSE @]

\* cache_dir.exists() and the glob of *.json
InfoStart ==
    /\ ipc = "start"
    /\ cache_info' = [NoInfo EXCEPT !.exists = info_dir.exists]
    /\ IF info_dir.exists
       THEN /\ info_todo' = DOMAIN info_dir.json
            /\ ipc' = "loop"
       ELSE /\ info_todo' = {}
            /\ ipc' = "returned"
    /\ UNCHANGED info_dir
    /\ UNCHANGED notInfo

\* one cache file, in the order the glob yields them
InfoFile ==
    /\ ipc = "loop"
    /\ \E cache_file \in info_todo :
          /\ cache_info' = InfoBody(cache_info, cache_file, info_dir.json[cache_file])
          /\ info_todo' = info_todo \ {cache_file}
    /\ UNCHANGED <<ipc, info_dir>>
    /\ UNCHANGED notInfo

\* the glob is exhausted and cache_info is returned
InfoReturn ==
    /\ ipc = "loop"
    /\ info_todo = {}
    /\ ipc' = "returned"
    /\ UNCHANGED <<info_dir, info_todo, cache_info>>
    /\ UNCHANGED notInfo

IdleInfo ==
    /\ ipc = "idle"
    /\ info_dir = NoDirectory
    /\ info_todo = {}
    /\ cache_info = NoInfo

InitInfo ==
    /\ ipc = "start"
    /\ info_dir \in CacheDirs
    /\ info_todo = {}
    /\ cache_info = NoInfo

NextInfo ==
    \/ InfoStart
    \/ InfoFile
    \/ InfoReturn


(* convert_model_to_ascii and the writing of the stage artifacts *)

\* The values of model_dump(): a string, a number, a list, or a dictionary of
\* a nested model
Str(text) == [t |-> "str", v |-> text]
Num(n) == [t |-> "num", v |-> n]
List(items) == [t |-> "list", v |-> items]
Dict(fields) == [t |-> "dict", v |-> fields]

\* the new_item_dict built for a dictionary inside a list
convert_item_dict(item) ==
    Dict([k \in DOMAIN item.v |->
             IF item.v[k].t = "str" THEN Str(convert_to_ascii(item.v[k].v)) ELSE item.v[k]])

\* the new_list built for a list value
convert_list(value) ==
    List([i \in DOMAIN value.v |->
             IF value.v[i].t = "str" THEN Str(convert_to_ascii(value.v[i].v))
             ELSE IF value.v[i].t = "dict" THEN convert_item_dict(value.v[i])
             ELSE value.v[i]])

\* a slip of convert_model_to_ascii: the dictionaries inside a list are
\* appended as they are
convert_model_to_ascii_flat(model_dict) ==
    Dict([key \in DOMAIN model_dict.v |->
             LET value == model_dict.v[key]
             IN  IF value.t = "str" THEN Str(convert_to_ascii(value.v))
                 ELSE IF value.t = "list"
                      THEN List([i \in DOMAIN value.v |->
                                    IF value.v[i].t = "str"
                                    THEN Str(convert_to_ascii(value.v[i].v))
                                    ELSE value.v[i]])
                 ELSE value])

\* convert_model_to_ascii, on the dictionary of model_dump(): the strings at
\* the top, the strings in a list, and the strings of a dictionary in a list
\* are converted; the model re-created from the dictionary dumps to the same
\* dictionary
convert_model_to_ascii(model_dict) ==
    Dict([key \in DOMAIN model_dict.v |->
             LET value == model_dict.v[key]
             IN  IF value.t = "str" THEN Str(convert_to_ascii(value.v))
                 ELSE IF value.t = "list" THEN convert_list(value)
                 ELSE value])

\* a string as json.dump writes it and json.load reads it back: with
\* ensure_ascii a non-ASCII character is written as an escape sequence
json_string(text, ensure_ascii) ==
    [i \in DOMAIN text |-> IF ensure_ascii /\ ~IsAscii(text[i]) THEN "ESC" ELSE text[i]]

RECURSIVE json_dump(_, _)
\* json.dump(obj, f, indent=2, ensure_ascii=...)
json_dump(obj, ensure_ascii) ==
    IF obj.t = "str" THEN Str(json_string(obj.v, ensure_ascii))
    ELSE IF obj.t = "list" THEN List([i \in DOMAIN obj.v |-> json_dump(obj.v[i], ensure_ascii)])
    ELSE IF obj.t = "dict" THEN Dict([k \in DOMAIN obj.v |-> json_dump(obj.v[k], ensure_ascii)])
    ELSE obj

\* texts a language model can answer with: plain, with typographic
\* characters, with stray whitespace, with a control character
LlmTexts ==
    {<<"a">>, <<"a", "EN", "a">>, <<"SP", "a", "NL", "a">>, <<"NUL", "a", "ELL">>}

\* the values of CyberEventCategory, word by word: one word, two words, and
\* a hyphenated word followed by a word
CategoryNames == {<<"a">>, <<"a", "SP", "a">>, <<"a", "-", "a", "SP", "a">>}

\* lists of at most one element
UpToOne(S) == {<<>>} \cup {<<x>> : x \in S}

EmergingRiskDumps ==
    {Dict([risk_title |-> Str(title), description |-> Str(description),
           impact_score |-> Num(7), likelihood_score |-> Num(4)]) :
        title \in LlmTexts, description \in LlmTexts}

CyberRiskAnalysisDumps ==
    {Dict([emerging_risks |-> List(risks), board_summary |-> Str(summary)]) :
        risks \in UpToOne(EmergingRiskDumps), summary \in LlmTexts}

ActionPointDumps ==
    {Dict([priority |-> Num(1), description |-> Str(description),
           suggested_owner |-> Str(owner)]) :
        description \in LlmTexts, owner \in LlmTexts}

BoardActionPlanDumps ==
    {Dict([action_points |-> List(points)]) : points \in UpToOne(ActionPointDumps)}

ProjectPlanDumps ==
    {Dict([title |-> Str(title), objective |-> Str(objective),
           stakeholders |-> List(stakeholders),
           timeline_phases |-> List(<<Str(<<"a", "EM", "a">>)>>),
           kpis |-> List(<<>>),
           risks |-> List(<<Str(<<"a">>), Str(<<"a", "DEG">>)>>)]) :
        title \in LlmTexts, objective \in LlmTexts,
        stakeholders \in UpToOne({Str(t) : t \in LlmTexts})}

\* EventCategory(category=category_name, count=count, trend="stable",
\* percentage_change=0.0)
EventCategoryDump(category_name) ==
    Dict([category |-> Str(category_name), count |-> Num(1), trend |-> Str(<<"a">>),
          percentage_change |-> Num(0)])

\* the MonthlyTrend of _create_analysis_from_data for a month whose articles
\* fall into the given categories: the month key and the key insight are
\* built from digits, words, spaces, hyphens and commas
MonthlyTrendDumps ==
    {Dict([month |-> Str(<<"a", "-", "a">>), total_events |-> Num(Len(names)),
           categories |-> List([i \in DOMAIN names |-> EventCategoryDump(names[i])]),
           top_threat |-> Str(IF names = <<>> THEN <<"a">> ELSE names[1]),
           key_insight |-> Str(<<"a", "SP", "a">>)]) :
        names \in UpToOne(CategoryNames)
                  \cup {<<x, y>> : x \in CategoryNames, y \in CategoryNames}}

\* the TimeSeriesAnalysis of _create_analysis_from_data: every string is put
\* together from fixed phrases, numbers, month keys and category names
TimeSeriesAnalysisDumps ==
    {Dict([monthly_trends |-> List(trends), overall_trend |-> Str(<<"a">>),
           most_volatile_category |-> Str(volatile),
           emerging_patterns |-> List(<<Str(<<"a", "SP", "a">>)>>),
           time_series_summary |-> Str(<<"a", "SP", "a", ".", "SP">>)]) :
        trends \in UpToOne(MonthlyTrendDumps), volatile \in CategoryNames}

\* the commentary a language model can answer with
Commentaries == {Str(text) : text \in LlmTexts} \cup {Str(<<>>), Str(<<"DEG">>)}

\* risk_analysis is converted and written by analyze_emerging_risks
WriteRiskAnalysis ==
    /\ ppc = "produced"
    /\ produced.kind = "CyberRiskAnalysis"
    /\ written' = json_dump(convert_model_to_ascii(produced.dump), TRUE)
    /\ ppc' = "written"
    /\ UNCHANGED produced
    /\ UNCHANGED notPersist

\* action_plan is converted and written by generate_board_action_plan
WriteActionPlan ==
    /\ ppc = "produced"
    /\ produced.kind = "BoardActionPlan"
    /\ written' = json_dump(convert_model_to_ascii(produced.dump), TRUE)
    /\ ppc' = "written"
    /\ UNCHANGED produced
    /\ UNCHANGED notPersist

\* project_plan is converted and written by create_project_plan
WriteProjectPlan ==
    /\ ppc = "produced"
    /\ produced.kind = "ProjectPlan"
    /\ written' = json_dump(convert_model_to_ascii(produced.dump), TRUE)
    /\ ppc' = "written"
    /\ UNCHANGED produced
    /\ UNCHANGED notPersist

\* time_series_analysis is converted and written by analyze_time_series,
\* with ensure_ascii=False
WriteTimeSeries ==
    /\ ppc = "produced"
    /\ produced.kind = "TimeSeriesAnalysis"
    /\ written' = json_dump(convert_model_to_ascii(produced.dump), FALSE)
    /\ ppc' = "written"
    /\ UNCHANGED produced
    /\ UNCHANGED notPersist

\* the commentary is converted and written by generate_time_series_commentary
WriteCommentary ==
    /\ ppc = "produced"
    /\ produced.kind = "commentary"
    /\ written' = Str(convert_to_ascii(produced.dump.v))
    /\ ppc' = "written"
    /\ UNCHANGED produced
    /\ UNCHANGED notPersist

NothingProduced == [kind |-> None, dump |-> Num(0)]

IdlePersist ==
    /\ ppc = "idle"
    /\ produced = NothingProduced
    /\ written = Num(0)

InitPersist ==
    /\ ppc = "produced"
    /\ \E kind \in {"CyberRiskAnalysis", "BoardActionPlan", "ProjectPlan",
                    "TimeSeriesAnalysis", "commentary"} :
          \E dump \in CASE kind = "CyberRiskAnalysis" -> CyberRiskAnalysisDumps
                        [] kind = "BoardActionPlan" -> BoardActionPlanDumps
                        [] kind = "ProjectPlan" -> ProjectPlanDumps
                        [] kind = "TimeSeriesAnalysis" -> TimeSeriesAnalysisDumps
                        [] kind = "commentary" -> Commentaries :
             produced = [kind |-> kind, dump |-> dump]
    /\ written = Num(0)

NextPersist ==
    \/ WriteRiskAnalysis
    \/ WriteActionPlan
    \/ WriteProjectPlan
    \/ WriteTimeSeries
    \/ WriteCommentary


(* DashboardGenerator.generate_html *)

\* the names of the files generate_html looks for in output_dir
RiskAnalysisFile == <<"1_risk_analysis.json", 0>>
TimeSeriesFile == <<"2_time_series_analysis.json", 0>>
CommentaryFile == <<"3_time_series_commentary.txt", 0>>
ActionPlanFile == <<"4_board_action_plan.json", 0>>
ProjectPlanFile(i) == <<"5_project_plan_.json", i>>

\* {} and ""
EmptyDict == Dict(<<>>)
EmptyText == Str(<<>>)

\* what a call gives when an exception leaves it
Raise == [t |-> "raise", v |-> 0]

\* bool(value) of a dictionary, list or string
IsTrue(value) ==
    IF value.t = "dict" THEN DOMAIN value.v # {}
    ELSE IF value.t \in {"list", "str"} THEN Len(value.v) > 0
    ELSE FALSE

\* d.get(key, default)
get(d, key, default) == IF key \in DOMAIN d.v THEN d.v[key] ELSE default

\* a slip of load_json_data: the file is opened without asking whether it exists
load_json_data_unguarded(dir, filename) ==
    IF filename \in DOMAIN dir THEN dir[filename] ELSE Raise

\* load_json_data
load_json_data(dir, filename) ==
    IF filename \in DOMAIN dir THEN dir[filename] ELSE EmptyDict

\* load_text_data
load_text_data(dir, filename) ==
    IF filename \in DOMAIN dir THEN dir[filename] ELSE EmptyText

RECURSIVE load_project_plans(_, _)
\* the loop over 5_project_plan_{i}.json, from i on: it ends at the first
\* name that loads as an empty dictionary
load_project_plans(dir, i) ==
    LET plan_data == load_json_data(dir, ProjectPlanFile(i))
    IN  IF plan_data.t = "raise" THEN <<Raise>>
        ELSE IF ~IsTrue(plan_data) THEN <<>>
        ELSE <<plan_data>> \o load_project_plans(dir, i + 1)

\* generate_risk_heatmap_data
generate_risk_heatmap_data(risks) ==
    [i \in DOMAIN risks |->
        [x |-> risks[i].v.impact_score.v, y |-> risks[i].v.likelihood_score.v,
         value |-> risks[i].v.impact_score.v * risks[i].v.likelihood_score.v,
         title |-> risks[i].v.risk_title.v, description |-> risks[i].v.description.v]]

\* time_series_chart_data: None, or the labels and the totals of
\* create_time_series_chart_data
NoChart == [none |-> TRUE, labels |-> <<>>, data |-> <<>>]

create_time_series_chart_data(series_data) ==
    LET trends == series_data.v.monthly_trends.v
    IN  [none |-> FALSE,
         labels |-> [i \in DOMAIN trends |-> trends[i].v.month.v],
         data |-> [i \in DOMAIN trends |-> trends[i].v.total_events.v]]

\* a section of the page: the placeholder paragraph, or one block per item
NoDataSection == [placeholder |-> TRUE, items |-> <<>>]

\* _generate_risks_html
generate_risks_html(risks) ==
    IF risks = <<>> THEN NoDataSection
    ELSE [placeholder |-> FALSE,
          items |-> [i \in DOMAIN risks |->
                        <<risks[i].v.risk_title.v, risks[i].v.description.v,
                          risks[i].v.impact_score.v * risks[i].v.likelihood_score.v>>]]

\* _generate_actions_html
generate_actions_html(actions) ==
    IF actions = <<>> THEN NoDataSection
    ELSE [placeholder |-> FALSE,
          items |-> [i \in DOMAIN actions |->
                        <<actions[i].v.priority.v, actions[i].v.description.v,
                          actions[i].v.suggested_owner.v>>]]

\* _generate_projects_html
generate_projects_html(projects) ==
    IF projects = <<>> THEN NoDataSection
    ELSE [placeholder |-> FALSE,
          items |-> [i \in DOMAIN projects |->
                        <<i, projects[i].v.title.v, projects[i].v.objective.v,
                          get(projects[i], "stakeholders", List(<<>>)).v>>]]

\* the commentary section: the text with its newlines as <br>, or the placeholder
commentary_html(commentary_text) ==
    IF IsTrue(commentary_text)
    THEN [placeholder |-> FALSE,
          items |-> [i \in DOMAIN commentary_text.v |->
                        IF commentary_text.v[i] = "NL" THEN "BR"
                        ELSE commentary_text.v[i]]]
    ELSE NoDataSection

\* what generate_html gives when an exception leaves it
HtmlRaised ==
    [raised |-> TRUE, board_summary |-> [placeholder |-> TRUE, text |-> <<>>],
     chart |-> NoChart, commentary |-> NoDataSection, heatmap_data |-> <<>>,
     risks |-> NoDataSection, actions |-> NoDataSection, projects |-> NoDataSection]

\* generate_html: the parts of the page that depend on the files
generate_html(dir) ==
    LET risk_data == load_json_data(dir, RiskAnalysisFile)
        series_data == load_json_data(dir, TimeSeriesFile)
        commentary_text == load_text_data(dir, CommentaryFile)
        action_data == load_json_data(dir, ActionPlanFile)
        plan_list == load_project_plans(dir, 1)
    IN  IF \/ "raise" \in {risk_data.t, series_data.t, action_data.t}
           \/ \E i \in DOMAIN plan_list : plan_list[i].t = "raise"
        THEN HtmlRaised
        ELSE LET risks == get(risk_data, "emerging_risks", List(<<>>)).v
                 has_chart ==
                     /\ IsTrue(series_data)
                     /\ IsTrue(get(series_data, "monthly_trends", List(<<>>)))
             IN  [raised |-> FALSE,
                  board_summary |->
                      IF "board_summary" \in DOMAIN risk_data.v
                      THEN [placeholder |-> FALSE, text |-> risk_data.v.board_summary.v]
                      ELSE [placeholder |-> TRUE, text |-> <<>>],
                  chart |-> IF has_chart
                            THEN create_time_series_chart_data(series_data)
                            ELSE NoChart,
                  commentary |-> commentary_html(commentary_text),
                  heatmap_data |-> generate_risk_heatmap_data(risks),
                  risks |-> generate_risks_html(risks),
                  actions |-> generate_actions_html(
                                  get(action_data, "action_points", List(<<>>)).v),
                  projects |-> generate_projects_html(plan_list)]

\* the artifact files as the stages write them
StoredRiskAnalyses ==
    {json_dump(convert_model_to_ascii(d), TRUE) :
        d \in {a \in CyberRiskAnalysisDumps :
                  /\ a.v.board_summary.v = <<"a", "EN", "a">>
                  /\ \A i \in DOMAIN a.v.emerging_risks.v :
                        /\ a.v.emerging_risks.v[i].v.risk_title.v = <<"a">>
                        /\ a.v.emerging_risks.v[i].v.description.v = <<"SP", "a", "NL", "a">>}}

StoredTimeSeries ==
    {json_dump(convert_model_to_ascii(d), FALSE) :
        d \in {a \in TimeSeriesAnalysisDumps :
                  /\ a.v.most_volatile_category.v = <<"a">>
                  /\ \A i \in DOMAIN a.v.monthly_trends.v :
                        a.v.monthly_trends.v[i].v.top_threat.v = <<"a">>}}

StoredCommentaries == {Str(convert_to_ascii(c.v)) : c \in Commentaries}

StoredActionPlans ==
    {json_dump(convert_model_to_ascii(d), TRUE) :
        d \in {a \in BoardActionPlanDumps :
                  \A i \in DOMAIN a.v.action_points.v :
                     a.v.action_points.v[i].v.suggested_owner.v = <<"a">>}}

StoredProjectPlan(t) ==
    json_dump(convert_model_to_ascii(
                  CHOOSE d \in ProjectPlanDumps :
                      /\ d.v.title.v = t
                      /\ d.v.objective.v = <<"a">>
                      /\ d.v.stakeholders.v = <<>>), TRUE)

\* the output directories: each artifact file absent or present
OutputDirs ==
    {[name \in present |->
         IF name = RiskAnalysisFile THEN risk
         ELSE IF name = TimeSeriesFile THEN series
         ELSE IF name = CommentaryFile THEN commentary
         ELSE IF name = ActionPlanFile THEN actions
         ELSE StoredProjectPlan(IF name[2] = 1 THEN <<"a">> ELSE <<"a", "EN", "a">>)] :
        present \in SUBSET {RiskAnalysisFile, TimeSeriesFile, CommentaryFile,
                            ActionPlanFile, ProjectPlanFile(1), ProjectPlanFile(2)},
        risk \in StoredRiskAnalyses, series \in StoredTimeSeries,
        commentary \in StoredCommentaries, actions \in StoredActionPlans}

\* generate_html is called
GenerateHtml ==
    /\ dpc = "start"
    /\ html' = generate_html(output_files)
    /\ dpc' = "done"
    /\ UNCHANGED output_files
    /\ UNCHANGED notDash

IdleDash ==
    /\ dpc = "idle"
    /\ output_files = <<>>
    /\ html = HtmlRaised

InitDash ==
    /\ dpc = "start"
    /\ output_files \in OutputDirs
    /\ html = HtmlRaised

NextDash ==
    \/ GenerateHtml


(* Specifications: one component runs, the others are idle *)

InitCollectOnly == InitCollect /\ IdleClassify /\ IdleSummary /\ IdleFetch /\ IdleMain /\ IdleAscii /\ IdleTrend /\ IdleSearch /\ IdleRisk /\ IdleClear /\ IdleWindows /\ IdleInfo /\ IdlePersist /\ IdleDash

SpecCollect == InitCollectOnly /\ [][NextCollect]_vars

InitClassifyOnly == InitClassifier /\ IdleCollect /\ IdleSummary /\ IdleFetch /\ IdleMain /\ IdleAscii /\ IdleTrend /\ IdleSearch /\ IdleRisk /\ IdleClear /\ IdleWindows /\ IdleInfo /\ IdlePersist /\ IdleDash

SpecClassify == InitClassifyOnly /\ [][NextClassifier]_vars

\* the two producers of monthly buckets: the collector's cache entries and the
\* aggregation of get_historical_news_summary
InitBuckets ==
    \/ InitCollect /\ IdleClassify /\ IdleSummary /\ IdleFetch /\ IdleMain /\ IdleAscii /\ IdleTrend /\ IdleSearch /\ IdleRisk /\ IdleClear /\ IdleWindows /\ IdleInfo /\ IdlePersist /\ IdleDash
    \/ InitSummary /\ IdleCollect /\ IdleClassify /\ IdleFetch /\ IdleMain /\ IdleAscii /\ IdleTrend /\ IdleSearch /\ IdleRisk /\ IdleClear /\ IdleWindows /\ IdleInfo /\ IdlePersist /\ IdleDash

NextBuckets == NextCollect \/ NextSummary

SpecBuckets == InitBuckets /\ [][NextBuckets]_vars

InitFetchOnly == InitFetch /\ IdleCollect /\ IdleClassify /\ IdleSummary /\ IdleMain /\ IdleAscii /\ IdleTrend /\ IdleSearch /\ IdleRisk /\ IdleClear /\ IdleWindows /\ IdleInfo /\ IdlePersist /\ IdleDash

SpecFetch == InitFetchOnly /\ [][NextFetch]_vars

InitMainOnly == InitMain /\ IdleCollect /\ IdleClassify /\ IdleSummary /\ IdleFetch /\ IdleAscii /\ IdleTrend /\ IdleSearch /\ IdleRisk /\ IdleClear /\ IdleWindows /\ IdleInfo /\ IdlePersist /\ IdleDash

SpecMain == InitMainOnly /\ [][NextMain]_vars

InitFilterOnly == InitFilter /\ IdleCollect /\ IdleClassify /\ IdleSummary /\ IdleFetch /\ IdleAscii /\ IdleTrend /\ IdleSearch /\ IdleRisk /\ IdleClear /\ IdleWindows /\ IdleInfo /\ IdlePersist /\ IdleDash

SpecFilter == InitFilterOnly /\ [][NextFilter]_vars

InitAsciiOnly ==
    InitAscii /\ IdleCollect /\ IdleClassify /\ IdleSummary /\ IdleFetch /\ IdleMain /\ IdleTrend /\ IdleSearch /\ IdleRisk /\ IdleClear /\ IdleWindows /\ IdleInfo /\ IdlePersist /\ IdleDash

InitTrendOnly ==
    /\ InitTrend
    /\ IdleCollect /\ IdleClassify /\ IdleSummary /\ IdleFetch /\ IdleMain /\ IdleAscii /\ IdleSearch /\ IdleRisk /\ IdleClear /\ IdleWindows /\ IdleInfo /\ IdlePersist /\ IdleDash

SpecTrend == InitTrendOnly /\ [][NextTrend]_vars

SpecAscii == InitAsciiOnly /\ [][NextAscii]_vars

InitSearchOnly ==
    /\ InitSearch
    /\ IdleCollect /\ IdleClassify /\ IdleSummary /\ IdleFetch /\ IdleMain /\ IdleAscii /\ IdleTrend /\ IdleRisk /\ IdleClear /\ IdleWindows /\ IdleInfo /\ IdlePersist /\ IdleDash

SpecSearch == InitSearchOnly /\ [][NextSearch]_vars

InitRiskOnly ==
    /\ InitRisk
    /\ IdleCollect /\ IdleClassify /\ IdleSummary /\ IdleFetch /\ IdleMain /\ IdleAscii /\ IdleTrend /\ IdleSearch /\ IdleClear /\ IdleWindows /\ IdleInfo /\ IdlePersist /\ IdleDash

SpecRisk == InitRiskOnly /\ [][NextRisk]_vars

InitClearOnly ==
    /\ InitClear
    /\ IdleCollect /\ IdleClassify /\ IdleSummary /\ IdleFetch /\ IdleMain /\ IdleAscii /\ IdleTrend /\ IdleSearch /\ IdleRisk /\ IdleWindows /\ IdleInfo /\ IdlePersist /\ IdleDash

SpecClear == InitClearOnly /\ [][NextClear]_vars

InitWindowsOnly ==
    /\ InitWindows
    /\ IdleCollect /\ IdleClassify /\ IdleSummary /\ IdleFetch /\ IdleMain /\ IdleAscii /\ IdleTrend /\ IdleSearch /\ IdleRisk /\ IdleClear /\ IdleInfo /\ IdlePersist /\ IdleDash

SpecWindows == InitWindowsOnly /\ [][NextWindows]_vars

InitInfoOnly ==
    /\ InitInfo
    /\ IdleCollect /\ IdleClassify /\ IdleSummary /\ IdleFetch /\ IdleMain /\ IdleAscii /\ IdleTrend /\ IdleSearch /\ IdleRisk /\ IdleClear /\ IdleWindows /\ IdlePersist /\ IdleDash

SpecInfo == InitInfoOnly /\ [][NextInfo]_vars

InitPersistOnly ==
    /\ InitPersist
    /\ IdleCollect /\ IdleClassify /\ IdleSummary /\ IdleFetch /\ IdleMain /\ IdleAscii /\ IdleTrend /\ IdleSearch /\ IdleRisk /\ IdleClear /\ IdleWindows /\ IdleInfo /\ IdleDash

SpecPersist == InitPersistOnly /\ [][NextPersist]_vars

InitDashOnly ==
    /\ InitDash
    /\ IdleCollect /\ IdleClassify /\ IdleSummary /\ IdleFetch /\ IdleMain /\ IdleAscii /\ IdleTrend /\ IdleSearch /\ IdleRisk /\ IdleClear /\ IdleWindows /\ IdleInfo /\ IdlePersist

SpecDash == InitDashOnly /\ [][NextDash]_vars

-----------------------------------------------------------------------------
(* Claims about the cache store and the collector (SpecCollect) *)

\* the file read by the current call has a cache_date and valid article records
Parseable(file) == file.kind = "entry" /\ file.date_kind = "ok" /\ file.arts_valid

\* the file read by the current call exists and cannot be parsed
Unparseable(file) ==
    \/ file.kind = "invalid_json"
    \/ file.kind = "entry" /\ (file.date_kind = "bad" \/ ~file.arts_valid)

\* age of the cache_date of the file read by the current call, in ticks
AgeAtCheck == call.at - call.file.cache_date

\* the month of the current call is the calendar month of the check
ForCurrentMonth == call.month = MonthKeyOf(call.at)

\* C1: an existing, parseable cache file is a hit exactly when the age of its
\* cache_date is below the freshness window, 7 days for the current calendar month
\* and 30 days for any other month; 6 days (current) and 29 days (past) are hits,
\* 8 days (current) and 31 days (past) are misses.
C1_CacheFreshness ==
    (call.outcome # "none" /\ Parseable(call.file)) =>
        /\ (call.outcome = "hit") <=>
              (AgeAtCheck < (IF ForCurrentMonth THEN 7 ELSE 30) * TicksPerDay)
        /\ (ForCurrentMonth /\ AgeAtCheck = 6 * TicksPerDay) => call.outcome = "hit"
        /\ (ForCurrentMonth /\ AgeAtCheck = 8 * TicksPerDay) => call.outcome = "miss"
        /\ (~ForCurrentMonth /\ AgeAtCheck = 29 * TicksPerDay) => call.outcome = "hit"
        /\ (~ForCurrentMonth /\ AgeAtCheck = 31 * TicksPerDay) => call.outcome = "miss"

\* a past month's entry aged 29 days has been looked up and was a hit
C1_Witness ==
    /\ call.outcome = "hit"
    /\ Parseable(call.file)
    /\ ~ForCurrentMonth
    /\ AgeAtCheck = 29 * TicksPerDay

-----------------------------------------------------------------------------
(* Claims about the classifier (SpecClassify) *)

\* C5: if the LLM call or the mapping of its response fails, the function does not
\* raise and returns every input article with category Other and is_cyber_event
\* False; no article keeps a classification assigned before the failure.
C5_FallbackIsTotal ==
    /\ clpc # "raised"
    /\ (clpc = "returned" /\ cl_failed) =>
          \A i \in 1..Len(cl_articles) :
              /\ cl_articles[i].category = "Other"
              /\ cl_articles[i].is_cyber_event = "False"

\* the mapping failed after results had been mapped back onto the articles
C5_Witness ==
    /\ clpc = "returned"
    /\ cl_failed
    /\ cl_mapped >= 2
    /\ Len(cl_articles) >= 2

-----------------------------------------------------------------------------
(* Claims about monthly buckets (SpecBuckets) *)

\* C4: every cache entry written by the collector has count = len(articles), and
\* every monthly bucket of get_historical_news_summary has
\* total_count = len(articles) = sum of its per-category counts, whatever
\* sequence of articles has been added.
C4_BucketInvariant ==
    /\ \A mk \in DOMAIN cache :
          (cache[mk].kind = "entry" /\ cache[mk].arts_valid) =>
              cache[mk].count = Len(cache[mk].articles)
    /\ call.wrote =>
          /\ FileAt(cache, call.month).count = Len(call.fetched)
          /\ FileAt(cache, call.month).articles = call.fetched
    /\ \A mk \in DOMAIN monthly_data :
          /\ monthly_data[mk].total_count = Len(monthly_data[mk].articles)
          /\ monthly_data[mk].total_count = SumOf(monthly_data[mk].categories)

\* a bucket holds three articles in two categories, one of them by default
C4_Witness ==
    \E mk \in DOMAIN monthly_data :
        /\ monthly_data[mk].total_count = 3
        /\ DOMAIN monthly_data[mk].categories = {"Ransomware", "Other"}
        /\ \E i \in 1..3 : monthly_data[mk].articles[i].category = None

-----------------------------------------------------------------------------
(* Claims about fetch_monthly_articles (SpecFetch) *)

\* C10 as stated: the list built by fetch_monthly_articles never holds two
\* articles with the same title.
C10_NoDuplicateTitle ==
    \A i, j \in 1..Len(processed_articles) :
        i # j => processed_articles[i].title # processed_articles[j].title

\* C10, amended: fetch_monthly_articles deduplicates by exact link: every kept
\* article comes from a hit with a link, no two kept articles come from hits with
\* the same link, and processed_urls is exactly the set of links kept.
C10_NoDuplicateLink ==
    /\ Len(kept_links) = Len(processed_articles)
    /\ \A i, j \in 1..Len(kept_links) : i # j => kept_links[i] # kept_links[j]
    /\ processed_urls = {kept_links[i] : i \in 1..Len(kept_links)}
    /\ 0 \notin processed_urls

\* a hit whose link was already kept has been skipped, and two hits with
\* different links and the same title have both been kept
C10_Witness ==
    /\ fpc = "returned"
    /\ skipped_links # {}
    /\ Len(processed_articles) = 2
    /\ processed_articles[1].title = processed_articles[2].title

-----------------------------------------------------------------------------
(* Claims about the pipeline of main (SpecMain, SpecFilter) *)

\* the file of this run of the given kind and content
Artifact(kind, content) == OutFile(kind, 0, 1, content)

\* the project plans this run has written: one per finished iteration of the loop
PlansWritten == {OutFile("ProjectPlan", k, 1, <<sorted_actions[k]>>) : k \in 1..plan_i}

Halted == mpc \in {"halt_risk", "halt_time_series", "halt_action", "halt_plans"}

SavedInNews(kind, articles) ==
    \E t \in DOMAIN news_files : news_files[t] = [kind |-> kind, articles |-> articles]

\* C6 as stated: when a stage fails, no artifact of that stage or of a later
\* stage has been written by the run, and the artifacts of the earlier stages are
\* on disk.
C6_NoArtifactOfFailedStage ==
    /\ mpc = "halt_risk" => output = prior_output
    /\ mpc = "halt_time_series" =>
          output = prior_output \cup {Artifact("CyberRiskAnalysis", cyber_risk_analysis)}
    /\ mpc = "halt_action" =>
          output = prior_output \cup {Artifact("CyberRiskAnalysis", cyber_risk_analysis),
                                      Artifact("TimeSeriesAnalysis", time_series_analysis),
                                      Artifact("TimeSeriesCommentary", time_series_commentary)}
    /\ mpc = "halt_plans" =>
          output = prior_output \cup {Artifact("CyberRiskAnalysis", cyber_risk_analysis),
                                      Artifact("TimeSeriesAnalysis", time_series_analysis),
                                      Artifact("TimeSeriesCommentary", time_series_commentary),
                                      Artifact("BoardActionPlan", board_action_plan[1])}

\* C6, amended: when the LLM call of a stage fails the run halts there; nothing
\* of the failing call and nothing of a later stage is written (no partial
\* CyberRiskAnalysis, commentary, action plan or plan of the failing action
\* point), while what was persisted before the failing call stays on disk
\* unchanged: the files of earlier runs, the artifacts of the earlier stages, the
\* TimeSeriesAnalysis file written before the commentary call, and the project
\* plans of the action points that precede the failing one.
C6_HaltKeepsWhatWasWritten ==
    /\ prior_output \subseteq output
    /\ Halted => SavedInNews("filtered", m_articles)
    /\ mpc = "halt_risk" =>
          /\ output = prior_output
          /\ cyber_risk_analysis = <<>>
    /\ mpc = "halt_time_series" =>
          /\ output = prior_output \cup {Artifact("CyberRiskAnalysis", cyber_risk_analysis),
                                         Artifact("TimeSeriesAnalysis", time_series_analysis)}
          /\ time_series_commentary = <<>>
    /\ mpc = "halt_action" =>
          /\ output = prior_output \cup {Artifact("CyberRiskAnalysis", cyber_risk_analysis),
                                         Artifact("TimeSeriesAnalysis", time_series_analysis),
                                         Artifact("TimeSeriesCommentary", time_series_commentary)}
          /\ board_action_plan = <<>>
    /\ mpc = "halt_plans" =>
          /\ output = prior_output \cup {Artifact("CyberRiskAnalysis", cyber_risk_analysis),
                                         Artifact("TimeSeriesAnalysis", time_series_analysis),
                                         Artifact("TimeSeriesCommentary", time_series_commentary),
                                         Artifact("BoardActionPlan", board_action_plan[1])}
                                   \cup PlansWritten
          /\ plan_i < Len(sorted_actions)
          /\ Len(plan_calls) = plan_i + 1
    /\ Halted => project_plan = <<>> /\ "assembly" \notin {started[i] : i \in 1..Len(started)}

\* project planning failed on its second action point, after a retry, with the
\* plan of the first one written and a file of an earlier run in the directory
C6_Witness ==
    /\ mpc = "halt_plans"
    /\ plan_i = 1
    /\ attempt = max_retries
    /\ prior_output # {}

\* the stages in the order the claim lists them
ClaimedOrder ==
    <<"collection", "classification", "risk_extraction", "action_planning",
      "project_planning", "assembly">>

Listed(stage) == stage # "time_series"

\* C7: the stages start in the order collection, classification, risk
\* extraction, action planning, project planning, assembly, and whenever the LLM
\* call of a stage is in flight the artifact of the preceding stage is on disk.
C7_StrictSequence ==
    /\ SelectSeq(started, Listed) = SubSeq(ClaimedOrder, 1, Len(SelectSeq(started, Listed)))
    /\ mpc = "classify_llm" => SavedInNews("collected", m_articles)
    /\ mpc = "risk_llm" => SavedInNews("filtered", risk_input)
    /\ mpc = "commentary_llm" =>
          /\ Artifact("CyberRiskAnalysis", cyber_risk_analysis) \in output
          /\ Artifact("TimeSeriesAnalysis", time_series_analysis) \in output
    /\ mpc = "action_llm" =>
          /\ Artifact("CyberRiskAnalysis", cyber_risk_analysis) \in output
          /\ Artifact("TimeSeriesCommentary", time_series_commentary) \in output
    /\ mpc = "plan_llm" =>
          /\ Artifact("BoardActionPlan", board_action_plan[1]) \in output
          /\ PlansWritten \subseteq output
          /\ Len(plan_calls) = plan_i + 1
    /\ mpc = "assemble" =>
          /\ plan_i = Len(sorted_actions)
          /\ PlansWritten \subseteq output

\* every stage has started and two project plans have been written
C7_Witness ==
    /\ mpc = "assemble"
    /\ Len(started) = 7
    /\ plan_i = 2

\* action point a comes before action point b in ascending priority order;
\* equal priorities keep their stored order
Before(a, b, priorities) ==
    \/ priorities[a] < priorities[b]
    \/ priorities[a] = priorities[b] /\ a < b

PlanningOver ==
    \/ mpc \in {"consolidate", "assemble", "finished"}
    \/ mpc = "halt_unexpected" /\ board_action_plan # <<>>

\* C8: create_project_plan is called once per action point, in ascending
\* priority order whatever the stored order, and the plan of the k-th action
\* point of that order is written with index k, so the plan files of a run are
\* numbered 1..N.
C8_PlanOrder ==
    board_action_plan # <<>> =>
        LET priorities == board_action_plan[1]
            called     == {plan_calls[k] : k \in 1..Len(plan_calls)}
        IN  /\ called \subseteq 1..Len(priorities)
            /\ \A i, j \in 1..Len(plan_calls) :
                  i < j => Before(plan_calls[i], plan_calls[j], priorities)
            /\ \A a \in called : \A b \in (1..Len(priorities)) \ called :
                  Before(a, b, priorities)
            /\ {f \in output : f.kind = "ProjectPlan" /\ f.run = 1}
                  = {OutFile("ProjectPlan", k, 1, <<plan_calls[k]>>) : k \in 1..plan_i}
            /\ plan_i <= Len(plan_calls) /\ Len(plan_calls) <= plan_i + 1
            /\ PlanningOver => plan_i = Len(priorities) /\ Len(plan_calls) = Len(priorities)

\* the stored priorities are 3, 1, 2 and the three plans have been written
C8_Witness ==
    /\ mpc = "consolidate"
    /\ board_action_plan = << <<3, 1, 2>> >>
    /\ plan_calls = <<2, 3, 1>>
    /\ plan_i = 3

RECURSIVE CountEvents(_, _)
\* the number of articles flagged as cyber events among the first i
CountEvents(articles, i) ==
    IF i = 0 THEN 0
    ELSE CountEvents(articles, i - 1) + (IF IsCyberEvent(articles[i]) THEN 1 ELSE 0)

\* C9: the list handed to risk extraction is made of the first min(50, k) of the
\* k classified articles flagged as cyber events, in their original order, and
\* of nothing else.
C9_FilterThenCap ==
    mpc = "risk_llm" =>
        LET k == CountEvents(classified, Len(classified))
        IN  /\ Len(risk_input) = Min(FilterCap, k)
            /\ \A j \in 1..Len(risk_input) : IsCyberEvent(risk_input[j])
            /\ \A i \in 1..Len(classified) :
                  (IsCyberEvent(classified[i]) /\ CountEvents(classified, i) <= FilterCap)
                      => risk_input[CountEvents(classified, i)] = classified[i]

\* more than 50 articles are flagged, the first article is not, and the cut has
\* been applied
C9_Witness ==
    /\ mpc = "risk_llm"
    /\ Len(risk_input) = FilterCap
    /\ CountEvents(classified, Len(classified)) > FilterCap
    /\ ~IsCyberEvent(classified[1])

\* the instant lies in the calendar month of month_key
InMonth(t, mk) == MonthKeyOf(t) = mk

\* C11: every article of the list built by fetch_monthly_articles has a resolved
\* publication date that is not before the cutoff and lies in the queried
\* month, and a hit whose resolved date is before the cutoff or outside the
\* month is discarded.
C11_DatesInsideMonth ==
    /\ \A i \in 1..Len(processed_articles) :
          /\ processed_articles[i].published_date.kind = "date"
          /\ processed_articles[i].published_date.t >= filter_after_date
          /\ InMonth(processed_articles[i].published_date.t, f_month)
    /\ f_last.kept =>
          processed_articles[Len(processed_articles)].published_date = f_last.resolved
    /\ (/\ f_last.resolved.kind = "date"
        /\ \/ f_last.resolved.t < filter_after_date
           \/ ~InMonth(f_last.resolved.t, f_month)) => ~f_last.kept

\* a hit dated in the month has been kept and then a hit with a new link, dated
\* on the first day of the next month, has been discarded
C11_Witness ==
    /\ Len(processed_articles) = 1
    /\ f_last.new_link
    /\ f_last.resolved = DateAt(end_of_month(f_month) + TicksPerDay)
    /\ ~f_last.kept

-----------------------------------------------------------------------------
(* Claims about convert_to_ascii (SpecAscii) *)

\* C12: convert_to_ascii is idempotent: converting a converted text gives the
\* same text.
C12_Idempotent ==
    apc = "twice" => a_twice = a_once

\* a text with a non-ASCII character and whitespace, changed by the first
\* conversion into a text that is not empty, has been converted twice
C12_Witness ==
    /\ apc = "twice"
    /\ \E i \in 1..Len(a_text) : ~IsAscii(a_text[i])
    /\ \E i \in 1..Len(a_text) : IsSpace(a_text[i])
    /\ a_once \notin {<<>>, a_text}

\* C13: an en dash and an em dash each become "-" and an ellipsis becomes "...".
C13_PunctuationIsMapped ==
    apc = "once" =>
        /\ a_text = <<"a", "EN", "a">> => a_once = <<"a", "-", "a">>
        /\ a_text = <<"a", "EM", "a">> => a_once = <<"a", "-", "a">>
        /\ a_text = <<"a", "ELL">> => a_once = <<"a", ".", ".", ".">>

-----------------------------------------------------------------------------
(* Claims about the trend functions (SpecTrend) *)

\* the month keys of the data, earliest first: months are counted from year 0
Chronological ==
    LET keys == DOMAIN ts_monthly_data
        index(k) == 12 * k[1] + k[2]
        rank(k) == Cardinality({o \in keys : index(o) < index(k)})
    IN  [i \in 1..Cardinality(keys) |-> CHOOSE k \in keys : rank(k) = i - 1]

ChronologicalTotals ==
    [i \in 1..Len(Chronological) |-> ts_monthly_data[Chronological[i]].total_count]

\* the sum of list[from..to]
RangeSum(list, from, to) == Sum([i \in 1..(to - from + 1) |-> list[from + i - 1]])

\* C14: calculate_overall_trend returns "insufficient_data" for fewer than 2
\* months; otherwise it compares the sum of the second half of the
\* chronologically sorted totals with the sum of the first half (the first
\* len // 2 months): "increasing" above 1.10 times it, "decreasing" below 0.90
\* times it, "stable" otherwise.
C14_OverallTrend ==
    tpc # "data" =>
        LET totals == ChronologicalTotals
            n      == Len(totals)
            first  == RangeSum(totals, 1, n \div 2)
            second == RangeSum(totals, n \div 2 + 1, n)
        IN  /\ n < 2 => overall_trend = "insufficient_data"
            /\ (n >= 2 /\ 10 * second > 11 * first) => overall_trend = "increasing"
            /\ (n >= 2 /\ 10 * second < 9 * first) => overall_trend = "decreasing"
            /\ (n >= 2 /\ 10 * second <= 11 * first /\ 10 * second >= 9 * first)
                  => overall_trend = "stable"
            /\ totals = <<10, 10, 10, 15, 15, 15>> => overall_trend = "increasing"
            /\ totals = <<15, 15, 15, 10, 10, 10>> => overall_trend = "decreasing"
            /\ totals = <<10, 11, 9, 10>> => overall_trend = "stable"
            /\ totals = <<10>> => overall_trend = "insufficient_data"

\* the totals 10, 10, 10, 15, 15, 15 have been judged
C14_Witness ==
    /\ tpc = "trend"
    /\ ChronologicalTotals = <<10, 10, 10, 15, 15, 15>>
    /\ overall_trend = "increasing"

\* n * n * n times the population variance of the category's monthly counts:
\* the sum over the months of (n * count - sum of the counts) squared
CubedVariance(category) ==
    LET months == Chronological
        n      == Len(months)
        counts == [i \in 1..n |->
                      IF category \in DOMAIN ts_monthly_data[months[i]].categories
                      THEN ts_monthly_data[months[i]].categories[category] ELSE 0]
        total  == Sum(counts)
    IN  Sum([i \in 1..n |-> (n * counts[i] - total) * (n * counts[i] - total)])

CategoriesSeen ==
    {c \in Categories : \E mk \in DOMAIN ts_monthly_data : c \in DOMAIN ts_monthly_data[mk].categories}

\* C15: calculate_most_volatile_category returns "insufficient_data" for fewer
\* than 2 months, "none" when no month has a category, and otherwise a category
\* whose monthly counts, a missing month counting zero, have the largest
\* population variance.
C15_MostVolatile ==
    tpc = "done" =>
        LET n == Len(Chronological)
        IN  /\ n < 2 => most_volatile_category = "insufficient_data"
            /\ (n >= 2 /\ CategoriesSeen = {}) => most_volatile_category = "none"
            /\ (n >= 2 /\ CategoriesSeen # {}) =>
                  /\ most_volatile_category \in CategoriesSeen
                  /\ \A other \in CategoriesSeen :
                        CubedVariance(other) <= CubedVariance(most_volatile_category)

\* the months {Ransomware: 3, Other: 2}, {Phishing: 8}, {Ransomware: 2} have been
\* judged
C15_Witness ==
    /\ tpc = "done"
    /\ Len(Chronological) = 3
    /\ ts_monthly_data[Chronological[1]].categories
          = [c \in {"Ransomware", "Other"} |-> IF c = "Ransomware" THEN 3 ELSE 2]
    /\ ts_monthly_data[Chronological[2]].categories = [c \in {"Phishing"} |-> 8]
    /\ ts_monthly_data[Chronological[3]].categories = [c \in {"Ransomware"} |-> 2]
    /\ most_volatile_category = "Phishing"

-----------------------------------------------------------------------------
(* Claims about run_google_search (SpecSearch) *)

\* the last page request was answered with the rate-limit status
RateLimited == ~g_first.raised /\ g_first.status_code = 429

\* the last page failed: its request, or the retry of a rate-limited one
PageFailed ==
    \/ g_first.raised
    \/ g_first.status_code = 500
    \/ RateLimited /\ (g_second.raised \/ g_second.status_code >= 400)

\* C16: a page answered with the rate-limit status is requested once more
\* after the back-off of 60 seconds and never a third time; any other page is
\* requested once. A failed request, or a failed retry, ends the loop over the
\* pages and the results of the pages before it are what is returned.
C16_RetryOnceThenStop ==
    g_outcome # None =>
        /\ page_requests <= 2
        /\ RateLimited => page_requests = 2 /\ page_sleeps = 60
        /\ ~RateLimited => page_requests = 1 /\ page_sleeps = 0
        /\ PageFailed =>
              /\ g_outcome = "error"
              /\ gpc \in {"break", "returned"}
              /\ all_results = g_before
        /\ gpc = "returned" => all_results >= g_before

\* a rate-limited page failed again on its retry, after earlier pages gave
\* results, and those results were returned
C16_Witness ==
    /\ gpc = "returned"
    /\ RateLimited
    /\ g_second.status_code = 429
    /\ page_requests = 2
    /\ g_page >= 1
    /\ all_results >= 1

-----------------------------------------------------------------------------
(* Claims about the credentials check (SpecMain) *)

\* the value the run has for a credential it reads
CredentialValue(name) ==
    IF name = "OPENAI_API_KEY" /\ environ.dotenv[name] # "unset"
    THEN environ.dotenv[name]
    ELSE environ.process[name]

\* the credentials the run reads and does not find
MissingCredentials ==
    {name \in {"GOOGLE_CUSTOMSEARCH_CX_KEY", "GOOGLE_API_KEY", "OPENAI_API_KEY"} :
        CredentialValue(name) \in {"unset", "empty"}}

\* C18: when credentials are missing the run fails before the collection
\* starts, with nothing requested or written, and its error message names
\* exactly the missing credentials.
C18_NamesEveryMissingKey ==
    (mpc # "begin" /\ MissingCredentials # {}) =>
        /\ mpc = "halt_unexpected"
        /\ started = <<>>
        /\ attempt = 0
        /\ news_files = <<>>
        /\ output = prior_output
        /\ {error_msg[i] : i \in 1..Len(error_msg)} = MissingCredentials

-----------------------------------------------------------------------------
(* Claims about the risk scores (SpecRisk) *)

\* every score of the analysis lies in 1..10
ScoresInRange(analysis) ==
    \A i \in 1..Len(analysis) :
        /\ analysis[i].impact_score \in 1..10
        /\ analysis[i].likelihood_score \in 1..10

\* C19: the analysis written to the report file and the one returned to the
\* next stage have every impact_score and likelihood_score in 1..10; an answer
\* with a score outside it is rejected, never altered into range, and an
\* answer with all scores inside it, the ends 1 and 10 included, is accepted
\* as it is.
C19_ScoresInRange ==
    /\ risk_analysis # <<>> => ScoresInRange(risk_analysis[1])
    /\ risk_file # <<>> => ScoresInRange(risk_file[1])
    /\ (r_response # <<>> /\ ~ScoresInRange(r_response[1])) =>
          /\ rpc \in {"call", "raised"}
          /\ risk_analysis = <<>>
          /\ risk_file = <<>>
    /\ (r_response # <<>> /\ ScoresInRange(r_response[1])) =>
          /\ rpc = "returned"
          /\ risk_analysis = r_response
          /\ risk_file = r_response

\* an answer with a score of 11 was rejected and the next one, with the scores
\* 1 and 10, was written and returned
C19_Witness ==
    /\ rpc = "returned"
    /\ r_attempt = 2
    /\ risk_file = <<(<<[impact_score |-> 1, likelihood_score |-> 10]>>)>>
    /\ risk_analysis = risk_file

-----------------------------------------------------------------------------
(* Claims about clear_cache (SpecClear) *)

\* C20: after clear_cache the directory holds no cache file, whatever the
\* files held and however old they were, and nothing else about it has
\* changed; on a missing or empty directory the call changes nothing; a second
\* call leaves the state the first one left.
C20_ClearIsIdempotent ==
    kpc # "start" =>
        /\ DOMAIN cache_dir.json = {}
        /\ cache_dir.exists = k_before.exists
        /\ cache_dir.other = k_before.other
        /\ (~k_before.exists \/ DOMAIN k_before.json = {}) => cache_dir = k_before
        /\ kpc = "twice" => cache_dir = k_once

\* a directory with a fresh entry and an unreadable file was cleared twice
C20_Witness ==
    /\ kpc = "twice"
    /\ \E mk \in DOMAIN k_before.json :
          /\ k_before.json[mk].kind = "entry"
          /\ k_before.json[mk].cache_date = ClearNow
    /\ \E mk \in DOMAIN k_before.json : k_before.json[mk].kind = "invalid_json"
    /\ DOMAIN cache_dir.json = {}
    /\ cache_dir = k_once

-----------------------------------------------------------------------------
(* Claims about flat data (SpecTrend) *)

\* C30: for two or more months that all have the same positive total, an even
\* or an odd number of them, calculate_overall_trend returns "stable".
C30_FlatIsStable ==
    tpc # "data" =>
        LET totals == ChronologicalTotals
        IN  (/\ Len(totals) >= 2
             /\ totals[1] > 0
             /\ \A i \in 1..Len(totals) : totals[i] = totals[1])
            => overall_trend = "stable"

-----------------------------------------------------------------------------
(* Claims about the monthly buckets of the summary (SpecBuckets) *)

\* the instant lies between the first instant of the month and that of the next
WithinMonth(t, mk) ==
    /\ Stamp(mk[1], mk[2], 1, 0) <= t
    /\ t < (IF mk[2] = 12 THEN Stamp(mk[1] + 1, 1, 1, 0) ELSE Stamp(mk[1], mk[2] + 1, 1, 0))

\* the article has a parseable date in the month
DatedIn(article, mk) ==
    article.published_date.kind = "date" /\ WithinMonth(article.published_date.t, mk)

\* the articles with a parseable date among those gone through
Dated == SelectSeq(s_seen, LAMBDA a : a.published_date.kind = "date")

\* the months of 2025
MonthsOf2025 == {<<2025, mo>> : mo \in 1..12}

\* C25: the bucket of a month holds exactly the articles gone through whose
\* date parses and lies in that month, in their order; an article with a
\* missing or unparseable date is in no bucket; so the totals of the buckets
\* sum to the number of articles with a parseable date.
C25_BucketByMonth ==
    /\ DOMAIN monthly_data \subseteq MonthsOf2025
    /\ \A mk \in MonthsOf2025 :
          LET of_month == SelectSeq(s_seen, LAMBDA a : DatedIn(a, mk))
          IN  IF of_month = <<>>
              THEN mk \notin DOMAIN monthly_data
              ELSE /\ mk \in DOMAIN monthly_data
                   /\ monthly_data[mk].articles = of_month
                   /\ monthly_data[mk].total_count = Len(of_month)
    /\ SumOf([mk \in DOMAIN monthly_data |-> monthly_data[mk].total_count]) = Len(Dated)

\* three articles were gone through: one of the last day of January, one of
\* the first of February and one without a date
C25_Witness ==
    /\ spc = "returned"
    /\ Len(s_seen) = 3
    /\ Len(Dated) = 2
    /\ \E i \in 1..3 : s_seen[i].published_date.kind = "none"
    /\ DOMAIN monthly_data = {<<2025, 1>>, <<2025, 2>>}

-----------------------------------------------------------------------------
(* Claims about the matching of results by id (SpecClassify) *)

\* a result has been taken by the loop
ResultTaken == cl_result.category # None

\* C26: a result whose id is the position of an input article sets the
\* category and the flag of that article and of no other; a result whose id is
\* outside 0..len(articles)-1, too large or negative, changes no article and
\* does not make the batch fail.
C26_MatchedByIdInRange ==
    ResultTaken =>
        IF cl_result.id \in 0..(Len(cl_before) - 1)
        THEN /\ ~cl_failed
             /\ cl_articles = [cl_before EXCEPT
                                  ![cl_result.id + 1].category = cl_result.category,
                                  ![cl_result.id + 1].is_cyber_event = cl_result.is_cyber_event]
        ELSE /\ ~cl_failed
             /\ cl_articles = cl_before

-----------------------------------------------------------------------------
(* Claims about the month windows (SpecWindows) *)

\* months counted from year 0, and back
MonthIndex(mk) == 12 * mk[1] + (mk[2] - 1)
MonthAt(index) == <<index \div 12, (index % 12) + 1>>

\* the month the run starts in, read off the calendar
CurrentMonth ==
    CHOOSE mk \in {<<y, mo>> : y \in {2024, 2025}, mo \in 1..12} :
        /\ DayNum(mk[1], mk[2], 1) <= DayOf(w_now)
        /\ DayOf(w_now) < DayNum(mk[1], mk[2], 1) + DaysInMonth(mk[1], mk[2])

\* C22: for months_back = n the loop builds n windows; the i-th month key is
\* the current month moved back i - 1 months, so the keys descend month by
\* month without a repeat and the year falls after January; the first window
\* runs from the first of the month to today, every other from the first to
\* the last day of its month.
C22_MonthWindows ==
    /\ wpc = "done" => Len(w_ranges) = w_months_back
    /\ \A i \in 1..Len(w_ranges) :
          LET mk == MonthAt(MonthIndex(CurrentMonth) - (i - 1))
          IN  /\ w_ranges[i].month = mk
              /\ w_ranges[i].start = DayNum(mk[1], mk[2], 1)
              /\ i = 1 => w_ranges[i].end = DayOf(w_now)
              /\ i > 1 => w_ranges[i].end = DayNum(mk[1], mk[2], DaysInMonth(mk[1], mk[2]))

\* thirteen windows from January 2025 back: over December, the February of a
\* leap year, and January again
C22_Witness ==
    /\ wpc = "done"
    /\ Len(w_ranges) = 13
    /\ w_ranges[1].month = <<2025, 1>>
    /\ w_ranges[2].month = <<2024, 12>>
    /\ w_ranges[12].month = <<2024, 2>>
    /\ w_ranges[12].end = DayNum(2024, 2, 29)
    /\ w_ranges[13].month = <<2024, 1>>

-----------------------------------------------------------------------------
(* Claims about the last day of the month (SpecFetch) *)

\* C28: a hit with a new link whose resolved date is not before the cutoff and
\* is any instant of the queried month, from 00:00 on its first day to the end
\* of its last day, is kept.
C28_WholeMonthKept ==
    (/\ f_last.new_link
     /\ f_last.resolved.kind = "date"
     /\ f_last.resolved.t >= filter_after_date
     /\ InMonth(f_last.resolved.t, f_month)) => f_last.kept

-----------------------------------------------------------------------------
(* Claims about failed searches and the cache (SpecCollect) *)

\* C29: when the search of a fresh collection fails,
\* fetch_monthly_articles_with_cache writes no cache entry for the month.
C29_FailedSearchNotCached ==
    call.search_failed => ~call.wrote

-----------------------------------------------------------------------------
(* Claims about the end of a successful run (SpecMain) *)

\* every stage of the run has returned its result and every project plan of
\* the action points has been written
EveryStageSucceeded ==
    /\ m_articles # <<>>
    /\ cyber_risk_analysis # <<>>
    /\ time_series_analysis # <<>>
    /\ time_series_commentary # <<>>
    /\ board_action_plan # <<>>
    /\ project_plan # <<>>
    /\ plan_i = Len(sorted_actions)
    /\ PlansWritten \subseteq output

\* C27: a run that collected articles and in which every stage succeeded goes
\* on to construct the dashboard generator and write the dashboard; it does
\* not end in the handler of unexpected errors.
C27_SuccessfulRunAssembles ==
    EveryStageSucceeded => mpc \in {"assemble", "finished"}

(* Claims about get_cache_info (SpecInfo) *)

\* the entries of the report that are full records
FullRecords == {i \in 1..Len(cache_info.files) : ~cache_info.files[i].error}

\* the cache timestamps the full records carry
RecordedStamps ==
    {cache_info.files[i].cache_date[1] :
        i \in {j \in FullRecords : cache_info.files[j].cache_date # <<>>}}

\* the sum of the article counts of the first n entries
RECURSIVE CountedUpTo(_)
CountedUpTo(n) ==
    IF n = 0 THEN 0
    ELSE CountedUpTo(n - 1)
         + (IF cache_info.files[n].error THEN 0 ELSE cache_info.files[n].article_count)

\* C21: when get_cache_info has returned, the report holds exactly one entry
\* for every cache file, a full record when the file could be read and an
\* error marker otherwise; total_articles is the sum of the article counts of
\* the full records, and oldest_cache and newest_cache are the least and the
\* greatest cache timestamp of the full records
C21_ReportCoversFiles ==
    ipc = "returned" /\ info_dir.exists =>
        /\ Len(cache_info.files) = Cardinality(DOMAIN info_dir.json)
        /\ \A cache_file \in DOMAIN info_dir.json :
              \E i \in 1..Len(cache_info.files) :
                 /\ cache_info.files[i].file = cache_file
                 /\ cache_info.files[i].error = InfoRaises(info_dir.json[cache_file])
        /\ cache_info.total_articles = CountedUpTo(Len(cache_info.files))
        /\ IF RecordedStamps = {}
           THEN cache_info.oldest_cache = <<>> /\ cache_info.newest_cache = <<>>
           ELSE /\ cache_info.oldest_cache # <<>>
                /\ cache_info.newest_cache # <<>>
                /\ cache_info.oldest_cache[1] \in RecordedStamps
                /\ cache_info.newest_cache[1] \in RecordedStamps
                /\ \A t \in RecordedStamps :
                      cache_info.oldest_cache[1] <= t /\ t <= cache_info.newest_cache[1]


(* Claims about the text of the stage artifacts (SpecPersist) *)

RECURSIVE DeepAscii(_)
\* the value with convert_to_ascii applied to every string, at every depth
DeepAscii(value) ==
    IF value.t = "str" THEN Str(convert_to_ascii(value.v))
    ELSE IF value.t = "list" THEN List([i \in DOMAIN value.v |-> DeepAscii(value.v[i])])
    ELSE IF value.t = "dict" THEN Dict([k \in DOMAIN value.v |-> DeepAscii(value.v[k])])
    ELSE value

\* C23: every text field of a stage artifact (CyberRiskAnalysis,
\* BoardActionPlan, ProjectPlan, TimeSeriesAnalysis, commentary) is written,
\* at every nesting depth, as convert_to_ascii of the value the stage produced
C23_WrittenInAscii ==
    ppc = "written" => written = DeepAscii(produced.dump)

\* a risk analysis has been written whose nested risk title was produced
\* with a typographic character and stray whitespace in its description, and
\* both were changed by the conversion
C23_Witness ==
    /\ ppc = "written"
    /\ produced.kind = "CyberRiskAnalysis"
    /\ produced.dump.v.emerging_risks.v # <<>>
    /\ produced.dump.v.emerging_risks.v[1].v.risk_title.v = <<"a", "EN", "a">>
    /\ produced.dump.v.emerging_risks.v[1].v.description.v = <<"SP", "a", "NL", "a">>
    /\ written.v.emerging_risks.v[1].v.risk_title.v = <<"a", "a">>
    /\ written.v.emerging_risks.v[1].v.description.v = <<"a", "SP", "a">>


(* Claims about the dashboard and missing artifacts (SpecDash) *)

Absent(name) == name \notin DOMAIN output_files

\* C24: for every subset of the stage artifact files present in the output
\* directory, generate_html completes without raising, and the section of
\* each absent artifact shows no data: the placeholder for the board summary,
\* the risks, the commentary, the actions and the projects, no chart, and an
\* empty heat map
C24_AbsentArtifactsTolerated ==
    dpc = "done" =>
        /\ ~html.raised
        /\ Absent(RiskAnalysisFile) =>
              /\ html.board_summary.placeholder
              /\ html.risks.placeholder
              /\ html.heatmap_data = <<>>
        /\ Absent(TimeSeriesFile) => html.chart.none
        /\ Absent(CommentaryFile) => html.commentary.placeholder
        /\ Absent(ActionPlanFile) => html.actions.placeholder
        /\ Absent(ProjectPlanFile(1)) => html.projects.placeholder
        /\ Absent(ProjectPlanFile(2)) => Len(html.projects.items) <= 1

\* the page was generated from a directory that holds a risk analysis with a
\* risk and the first project plan, and nothing else
C24_Witness ==
    /\ dpc = "done"
    /\ DOMAIN output_files = {RiskAnalysisFile, ProjectPlanFile(1)}
    /\ ~html.raised
    /\ ~html.risks.placeholder
    /\ Len(html.projects.items) = 1
    /\ html.actions.placeholder
    /\ html.chart.none


====
